---- MODULE Spec2Model ----
(***************************************************************************)
(* SimulatedWebsocket: the client state machine of the SSE/WebSocket       *)
(* proxy (src/unnamed/part_006).  One client socket is modelled.  Its      *)
(* inputs are the caller's send()/close() calls, the events of the         *)
(* EventSource (raw frames, errors), the settling of its fetch() POSTs,    *)
(* the close timer and the page's beforeunload event.                      *)
(***************************************************************************)
EXTENDS Integers, Sequences, FiniteSets, TLC

\* ---------------------------------------------------------------- bounds
\* websocket-connected, message and binary-message frames handled by one socket
MaxFrames == 2
\* send() calls that reach sendMessage or sendBlob, plus close() calls that
\* reach the POST of sendCloseRequest
MaxPosts == 2

\* ------------------------------------------------------- program constants
CONNECTING == 0
OPEN == 1
CLOSING == 2
CLOSED == 3

NormalClosure == 1000
GoingAway == 1001
AbnormalClosure == 1006
MinAppCode == 3000
MaxAppCode == 4999

\* ------------------------------------------------------------ input sets
\* close(code?, reason?): the codes tried, around every boundary of the check
CloseCodes == {1000, 1001, 1006, 2999, 3000, 4999, 5000}
CloseArgs ==
    {[given |-> FALSE, code |-> 0]} \cup {[given |-> TRUE, code |-> c] : c \in CloseCodes}
CloseReasons == {"", "bye"}

\* what a websocket-closed frame or a close response may carry
WireCodes == {1000, 4002}
WireReasons == {"bye"}

TextPayloads == {"ping"}
\* base64 strings of binary-message frames: one decodable, one that atob rejects
Base64Payloads == {"AQI=", "%%%"}

Frame(t, d, c, r, w) == [type |-> t, data |-> d, code |-> c, reason |-> r, wasClean |-> w]

\* the objects decodeSSEMessage accepts: any object with a string type
Frames ==
    {Frame(t, "", 0, "", FALSE) :
        t \in {"session-secret", "websocket-connected", "ping", "connected", "bogus"}}
    \cup {Frame("message", d, 0, "", FALSE) : d \in TextPayloads}
    \cup {Frame("binary-message", d, 0, "", FALSE) : d \in Base64Payloads}
    \cup {Frame("websocket-error", "backend error", 0, "", FALSE)}
    \cup {Frame("websocket-closed", "", c, r, w) :
            c \in WireCodes, r \in WireReasons, w \in BOOLEAN}

\* event.data of an EventSource message: text that is not JSON, the empty
\* string, JSON that is no object, an object without a string type, or a frame
RawKinds == {"invalid-json", "empty", "non-object", "no-type", "object"}
RawData ==
    {[kind |-> k, msg |-> Frame("", "", 0, "", FALSE)] :
        k \in RawKinds \ {"object"}}
    \cup {[kind |-> "object", msg |-> f] : f \in Frames}

\* ----------------------------------------------------------------- state
VARIABLES
    readyState,           \* this.readyState
    eventSource,          \* this.eventSource: "null", "open" (delivering), "closed"
    sessionSecret,        \* this.sessionSecret !== null
    userInitiatedClose,   \* this.userInitiatedClose
    isWebSocketConnected, \* this.isWebSocketConnected
    pageUnloading,        \* this.pageUnloading
    events,               \* the events dispatched so far, in order
    sendFetches,          \* fetch(/messages) promises not yet settled
    blobReads,            \* blob.arrayBuffer() promises not yet settled
    closeRequests,        \* one record per sendCloseRequest that issued a POST
    posts,                \* POSTs issued so far: [send |-> n, close |-> m]
    lastCall              \* the caller's last send()/close(), when it is the last step

vars ==
    <<readyState, eventSource, sessionSecret, userInitiatedClose,
      isWebSocketConnected, pageUnloading, events, sendFetches, blobReads,
      closeRequests, posts, lastCall>>

\* ------------------------------------------------------------ proxy state
\* SSEWebSocketProxy (src/proxy/src/index.ts), one instance
VARIABLES
    config,     \* this.config: allowedHosts, allowAnyLocalhostPort, dangerouslyAllowAnyHost
    clients,    \* this.clients: session id -> its Client object (0: no entry)
    conns,      \* the Client objects created so far, with their sseResponse and websocket
    requests,   \* POST requests that found their session, with their handler's state
    lastResp,   \* the HTTP response written by the last step, when it wrote one
    lastFrame,  \* the frame written on an SSE stream by the last step, and the stream
    lastSend    \* the data passed to websocket.send by the last step, and the websocket

pvars == <<config, clients, conns, requests, lastResp, lastFrame, lastSend>>

\* what is in flight between the socket and the proxy: the frames on the SSE
\* stream, the close POST and its response; and the close event of the backend
VARIABLE net

\* what a specification follows besides the socket and the proxy: a payload on
\* its way through the bridge, the order of the sends, or the server's listener
\* and reaper
VARIABLE wire

\* ---------------------------------------------------------------- events
\* an event passed to dispatchEvent (the registered listeners); slot: the
\* callback property that is then called with the same event object
Event(t, d, c, r, w) ==
    [type |-> t, data |-> d, code |-> c, reason |-> r, wasClean |-> w, slot |-> ""]
OpenEvent == [Event("open", "", 0, "", FALSE) EXCEPT !.slot = "onopen"]
MessageEvent(d) == [Event("message", d, 0, "", FALSE) EXCEPT !.slot = "onmessage"]
\* the error event of a handleError that does not call this.onerror
ErrorEvent_NoSlot(msg) == Event("error", msg, 0, "", FALSE)
ErrorEvent(msg) == [Event("error", msg, 0, "", FALSE) EXCEPT !.slot = "onerror"]
CloseEvent(c, r, w) == [Event("close", "", c, r, w) EXCEPT !.slot = "onclose"]

EventsOf(t) == {i \in 1..Len(events) : events[i].type = t}
NumEvents(t) == Cardinality(EventsOf(t))

NoCall ==
    [op |-> "none", given |-> FALSE, code |-> 0, reason |-> "", state |-> 0, result |-> "none"]
Call(op, a, res) ==
    [op |-> op, given |-> a.given, code |-> a.code, reason |-> "", state |-> readyState,
     result |-> res]
NoArgs == [given |-> FALSE, code |-> 0]
\* a POST that failed, when its handling is the last step
Settled(op) == Call(op, NoArgs, "none")

\* ------------------------------------------------- the socket's own parts
\* The part of the object that handleClose, handleError and closeEventSource
\* read and write, as a record, so that a handler's calls compose in order.
Self == [readyState |-> readyState, eventSource |-> eventSource, events |-> events]

Commit(s) ==
    /\ readyState' = s.readyState
    /\ eventSource' = s.eventSource
    /\ events' = s.events

\* handleError(error)
handleError(s, msg) ==
    [readyState |-> CLOSED, eventSource |-> "null", events |-> Append(s.events, ErrorEvent(msg))]

\* handleClose without its "already closed" check
handleClose_NoGuard(s, code, reason, wasClean) ==
    [readyState |-> CLOSED,
     eventSource |-> "null",
     events |-> Append(s.events, CloseEvent(code, reason, wasClean))]

\* handleClose(code, reason, wasClean)
handleClose(s, code, reason, wasClean) ==
    IF s.readyState = CLOSED
    THEN s
    ELSE [readyState |-> CLOSED,
          eventSource |-> "null",
          events |-> Append(s.events, CloseEvent(code, reason, wasClean))]

\* closeEventSource()
closeEventSource(s) == [s EXCEPT !.eventSource = "null"]

\* decodeSSEMessage(data): TRUE when it returns, FALSE when it throws
decodeSSEMessage(raw) == raw.kind = "object"

\* atob(base64Data) of decodeBinaryDataBrowser: does it throw, and the bytes
atobThrows(d) == d \notin {"AQI=", ""}
atob(d) == IF d = "AQI=" THEN "0x01 0x02" ELSE "0x"

\* the code check with only its upper limit: 1001 and every code below 3000 pass
InvalidCloseCode_UpperOnly(a) ==
    /\ a.given
    /\ a.code # NormalClosure
    /\ a.code > MaxAppCode

\* the code check with its lower limit off by one: 3000 is refused
InvalidCloseCode_OffByOne(a) ==
    /\ a.given
    /\ \/ a.code = GoingAway
       \/ (a.code # NormalClosure /\ (a.code <= MinAppCode \/ a.code > MaxAppCode))

\* the code check of close(): TRUE when close(code) throws InvalidAccessError
InvalidCloseCode(a) ==
    /\ a.given
    /\ \/ a.code = GoingAway
       \/ (a.code # NormalClosure /\ (a.code < MinAppCode \/ a.code > MaxAppCode))

\* code || 1000
CodeOrDefault(a) == IF a.given /\ a.code # 0 THEN a.code ELSE NormalClosure

\* the fields of SimulatedWebsocket and of its pending asynchronous work
TypeOK ==
    /\ readyState \in {CONNECTING, OPEN, CLOSING, CLOSED}
    /\ eventSource \in {"null", "open", "closed"}
    /\ sessionSecret \in BOOLEAN
    /\ userInitiatedClose \in BOOLEAN
    /\ isWebSocketConnected \in BOOLEAN
    /\ pageUnloading \in BOOLEAN
    /\ \A i \in 1..Len(events) : events[i].type \in {"open", "message", "error", "close"}
    /\ sendFetches \in 0..MaxPosts
    /\ blobReads \in 0..MaxPosts
    /\ \A i \in 1..Len(closeRequests) :
          /\ closeRequests[i].fetch \in {"pending", "json", "done"}
          /\ closeRequests[i].timer \in {"armed", "cleared", "fired"}
    /\ posts.send \in 0..MaxPosts /\ posts.close \in 0..MaxPosts
    /\ lastCall.result \in {"none", "ok", "noop", "throw"}

Init ==
    /\ readyState = CONNECTING
    /\ eventSource = "open"
    /\ sessionSecret = FALSE
    /\ userInitiatedClose = FALSE
    /\ isWebSocketConnected = FALSE
    /\ pageUnloading = FALSE
    /\ events = <<>>
    /\ sendFetches = 0
    /\ blobReads = 0
    /\ closeRequests = <<>>
    /\ posts = [send |-> 0, close |-> 0]
    /\ lastCall = NoCall

\* --------------------------------------------------- EventSource handlers
\* handleProxyMessage(message)
handleProxyMessage(m) ==
    CASE m.type = "session-secret" ->
            /\ sessionSecret' = TRUE
            /\ UNCHANGED <<readyState, eventSource, events, isWebSocketConnected>>
      [] m.type = "websocket-connected" ->
            /\ NumEvents("open") + NumEvents("message") < MaxFrames
            /\ isWebSocketConnected' = TRUE
            /\ readyState' = OPEN
            /\ events' = Append(events, OpenEvent)
            /\ UNCHANGED <<eventSource, sessionSecret>>
      [] m.type = "message" ->
            /\ NumEvents("open") + NumEvents("message") < MaxFrames
            /\ events' = Append(events, MessageEvent(m.data))
            /\ UNCHANGED <<readyState, eventSource, sessionSecret, isWebSocketConnected>>
      [] m.type = "binary-message" ->
            /\ NumEvents("open") + NumEvents("message") < MaxFrames
            /\ IF atobThrows(m.data)
               THEN UNCHANGED events
               ELSE events' = Append(events, MessageEvent(atob(m.data)))
            /\ UNCHANGED <<readyState, eventSource, sessionSecret, isWebSocketConnected>>
      [] m.type = "websocket-error" ->
            /\ Commit(handleError(Self, m.data))
            /\ UNCHANGED <<sessionSecret, isWebSocketConnected>>
      [] m.type = "websocket-closed" ->
            /\ Commit(handleClose(Self, m.code, m.reason, m.wasClean))
            /\ UNCHANGED <<sessionSecret, isWebSocketConnected>>
      [] OTHER ->
            UNCHANGED <<readyState, eventSource, events, sessionSecret, isWebSocketConnected>>

\* eventSource.onmessage
onmessage(raw) ==
    /\ eventSource = "open"
    /\ IF decodeSSEMessage(raw)
       THEN handleProxyMessage(raw.msg)
       ELSE /\ Commit(handleError(Self, "Malformed data from proxy"))
            /\ UNCHANGED <<sessionSecret, isWebSocketConnected>>
    /\ lastCall' = NoCall
    /\ UNCHANGED <<userInitiatedClose, pageUnloading, sendFetches, blobReads,
                   closeRequests, posts>>

\* eventSource.onerror; esClosed: the EventSource gave up (readyState CLOSED)
\* instead of reconnecting
onerror(esClosed) ==
    /\ eventSource = "open"
    /\ IF userInitiatedClose \/ pageUnloading
       THEN /\ eventSource' = IF esClosed THEN "closed" ELSE "open"
            /\ UNCHANGED <<readyState, events>>
       ELSE IF readyState = OPEN
            THEN Commit(handleClose(Self, AbnormalClosure, "SSE connection error", FALSE))
            ELSE Commit(handleError(Self, "SSE connection error"))
    /\ lastCall' = NoCall
    /\ UNCHANGED <<sessionSecret, userInitiatedClose, isWebSocketConnected, pageUnloading,
                   sendFetches, blobReads, closeRequests, posts>>

\* pageUnloadTracker, the beforeunload listener
pageUnloadTracker ==
    /\ ~pageUnloading
    /\ pageUnloading' = TRUE
    /\ eventSource' = IF eventSource # "null" THEN "closed" ELSE "null"
    /\ lastCall' = NoCall
    /\ UNCHANGED <<readyState, sessionSecret, userInitiatedClose, isWebSocketConnected,
                   events, sendFetches, blobReads, closeRequests, posts>>

\* ------------------------------------------------------------------ send
\* sendMessage(messageToSend), from the state s
sendMessage(s) ==
    IF ~sessionSecret
    THEN /\ Commit(handleClose(s, AbnormalClosure, "No session secret available", FALSE))
         /\ UNCHANGED <<sendFetches, posts>>
    ELSE /\ Commit(s)
         /\ sendFetches' = sendFetches + 1
         /\ posts' = [posts EXCEPT !.send = @ + 1]

\* send without its readyState check
send_NoStateCheck(kind) ==
    /\ posts.send + posts.close + blobReads < MaxPosts
    /\ lastCall' = Call("send", NoArgs, "ok")
    /\ IF kind = "blob"
       THEN /\ blobReads' = blobReads + 1
            /\ UNCHANGED <<readyState, eventSource, events, sendFetches, posts>>
       ELSE /\ sendMessage(Self)
            /\ UNCHANGED blobReads
    /\ UNCHANGED <<sessionSecret, userInitiatedClose, isWebSocketConnected, pageUnloading,
                   closeRequests>>

\* send(data); kind: a string or a byte buffer ("data"), or a Blob ("blob")
send(kind) ==
    /\ IF readyState # OPEN
       THEN /\ lastCall' = Call("send", NoArgs, "throw")
            /\ UNCHANGED <<readyState, eventSource, events, sendFetches, blobReads, posts>>
       ELSE /\ posts.send + posts.close + blobReads < MaxPosts
            /\ lastCall' = Call("send", NoArgs, "ok")
            /\ IF kind = "blob"
               THEN /\ blobReads' = blobReads + 1
                    /\ UNCHANGED <<readyState, eventSource, events, sendFetches, posts>>
               ELSE /\ sendMessage(Self)
                    /\ UNCHANGED blobReads
    /\ UNCHANGED <<sessionSecret, userInitiatedClose, isWebSocketConnected, pageUnloading,
                   closeRequests>>

\* sendBlob(blob) after blob.arrayBuffer() resolved
sendBlob ==
    /\ blobReads > 0
    /\ blobReads' = blobReads - 1
    /\ sendMessage(Self)
    /\ lastCall' = NoCall
    /\ UNCHANGED <<sessionSecret, userInitiatedClose, isWebSocketConnected, pageUnloading,
                   closeRequests>>

\* sendMessage without its catch: a rejected fetch is dropped
sendFetchSettled_NoCatch(rejected) ==
    /\ sendFetches > 0
    /\ sendFetches' = sendFetches - 1
    /\ lastCall' = IF rejected THEN Settled("send-post-rejected") ELSE NoCall
    /\ UNCHANGED <<readyState, eventSource, events, sessionSecret, userInitiatedClose,
                   isWebSocketConnected, pageUnloading, blobReads, closeRequests, posts>>

\* the fetch of sendMessage settles: it resolves (any HTTP status) or rejects
sendFetchSettled(rejected) ==
    /\ sendFetches > 0
    /\ sendFetches' = sendFetches - 1
    /\ IF rejected
       THEN Commit(handleClose(Self, AbnormalClosure, "Failed to send message", FALSE))
       ELSE UNCHANGED <<readyState, eventSource, events>>
    /\ lastCall' = IF rejected THEN Settled("send-post-rejected") ELSE NoCall
    /\ UNCHANGED <<sessionSecret, userInitiatedClose, isWebSocketConnected, pageUnloading,
                   blobReads, closeRequests, posts>>

\* ----------------------------------------------------------------- close
\* sendCloseRequest(code, reason) up to its first await, from the state s
sendCloseRequest(s) ==
    IF ~sessionSecret
    THEN /\ Commit(handleClose(s, AbnormalClosure, "No session secret available", FALSE))
         /\ UNCHANGED <<closeRequests, posts>>
    ELSE /\ posts.send + posts.close + blobReads < MaxPosts
         /\ Commit(s)
         /\ closeRequests' = Append(closeRequests, [fetch |-> "pending", timer |-> "armed"])
         /\ posts' = [posts EXCEPT !.close = @ + 1]

\* close() that marks the close as the user's before it checks the code
closeRejected_MarkFirst(a) ==
    /\ lastCall' = Call("close", a, "throw")
    /\ userInitiatedClose' = TRUE
    /\ UNCHANGED <<readyState, eventSource, events, closeRequests, posts>>

\* close(): the code check failed, the call throws
closeRejected(a) ==
    /\ lastCall' = Call("close", a, "throw")
    /\ UNCHANGED <<readyState, eventSource, events, userInitiatedClose, closeRequests, posts>>

\* close() without its local close: the close request is sent in every state
closeAccepted_NoLocalClose(a, reason) ==
    /\ lastCall' = [Call("close", a, "ok") EXCEPT !.reason = reason]
    /\ userInitiatedClose' = TRUE
    /\ sendCloseRequest([Self EXCEPT !.readyState = CLOSING])

\* close() whose local close ignores the code and the reason asked for
closeAccepted_DefaultCode(a, reason) ==
    /\ lastCall' = [Call("close", a, "ok") EXCEPT !.reason = reason]
    /\ userInitiatedClose' = TRUE
    /\ IF ~isWebSocketConnected
       THEN /\ Commit(handleClose([Self EXCEPT !.readyState = CLOSING],
                                  NormalClosure, "", TRUE))
            /\ UNCHANGED <<closeRequests, posts>>
       ELSE sendCloseRequest([Self EXCEPT !.readyState = CLOSING])

\* close(): the code check passed
closeAccepted(a, reason) ==
    /\ lastCall' = [Call("close", a, "ok") EXCEPT !.reason = reason]
    /\ userInitiatedClose' = TRUE
    /\ IF ~isWebSocketConnected
       THEN /\ Commit(handleClose([Self EXCEPT !.readyState = CLOSING],
                                  CodeOrDefault(a), reason, TRUE))
            /\ UNCHANGED <<closeRequests, posts>>
       ELSE sendCloseRequest([Self EXCEPT !.readyState = CLOSING])

\* close(code?, reason?)
close(a, reason) ==
    /\ IF readyState = CLOSED \/ readyState = CLOSING
       THEN /\ lastCall' = Call("close", a, "noop")
            /\ UNCHANGED <<readyState, eventSource, events, userInitiatedClose,
                           closeRequests, posts>>
       ELSE IF InvalidCloseCode(a)
            THEN closeRejected(a)
            ELSE closeAccepted(a, reason)
    /\ UNCHANGED <<sessionSecret, isWebSocketConnected, pageUnloading, sendFetches,
                   blobReads>>

\* clearTimeout(timeoutId)
clearTimeout(t) == IF t = "armed" THEN "cleared" ELSE t

\* the fetch of sendCloseRequest settles: it rejects, or resolves with a
\* status that is not ok, or resolves ok (response.json() is awaited next)
closeFetchSettled(i, outcome) ==
    /\ i \in 1..Len(closeRequests)
    /\ closeRequests[i].fetch = "pending"
    /\ CASE outcome = "rejected" ->
              /\ Commit(closeEventSource(
                     handleClose(Self, AbnormalClosure, "Close request failed", FALSE)))
              /\ closeRequests' = [closeRequests EXCEPT ![i].fetch = "done"]
         [] outcome = "http-error" ->
              /\ Commit(closeEventSource(
                     handleClose(Self, AbnormalClosure, "Close request failed: status", FALSE)))
              /\ closeRequests' = [closeRequests EXCEPT ![i].fetch = "done",
                                                        ![i].timer = clearTimeout(@)]
         [] outcome = "ok" ->
              /\ UNCHANGED <<readyState, eventSource, events>>
              /\ closeRequests' = [closeRequests EXCEPT ![i].fetch = "json",
                                                        ![i].timer = clearTimeout(@)]
    /\ lastCall' = CASE outcome = "rejected" -> Settled("close-post-rejected")
                    [] outcome = "http-error" -> Settled("close-post-http-error")
                    [] OTHER -> NoCall
    /\ UNCHANGED <<sessionSecret, userInitiatedClose, isWebSocketConnected, pageUnloading,
                   sendFetches, blobReads, posts>>

\* response.json() of sendCloseRequest settles: with closeInfo, or it rejects
closeJsonSettled(i, rejected, closeInfo) ==
    /\ i \in 1..Len(closeRequests)
    /\ closeRequests[i].fetch = "json"
    /\ IF rejected
       THEN Commit(closeEventSource(
                handleClose(Self, AbnormalClosure, "Close request failed", FALSE)))
       ELSE Commit(closeEventSource(
                handleClose(Self, closeInfo.code, closeInfo.reason, closeInfo.wasClean)))
    /\ closeRequests' = [closeRequests EXCEPT ![i].fetch = "done"]
    /\ lastCall' = IF rejected THEN Settled("close-body-rejected") ELSE NoCall
    /\ UNCHANGED <<sessionSecret, userInitiatedClose, isWebSocketConnected, pageUnloading,
                   sendFetches, blobReads, posts>>

\* the 5 s timer of sendCloseRequest fires
closeTimeout(i) ==
    /\ i \in 1..Len(closeRequests)
    /\ closeRequests[i].timer = "armed"
    /\ Commit(closeEventSource(
           handleClose(Self, AbnormalClosure, "Close request timeout", FALSE)))
    /\ closeRequests' = [closeRequests EXCEPT ![i].timer = "fired"]
    /\ lastCall' = NoCall
    /\ UNCHANGED <<sessionSecret, userInitiatedClose, isWebSocketConnected, pageUnloading,
                   sendFetches, blobReads, posts>>

CloseInfos == [code : WireCodes, reason : WireReasons, wasClean : BOOLEAN]

Next ==
    \/ \E raw \in RawData : onmessage(raw) /\ UNCHANGED <<pvars, net, wire>>
    \/ \E esClosed \in BOOLEAN : onerror(esClosed) /\ UNCHANGED <<pvars, net, wire>>
    \/ pageUnloadTracker /\ UNCHANGED <<pvars, net, wire>>
    \/ \E kind \in {"data", "blob"} : send(kind) /\ UNCHANGED <<pvars, net, wire>>
    \/ sendBlob /\ UNCHANGED <<pvars, net, wire>>
    \/ \E rejected \in BOOLEAN : sendFetchSettled(rejected) /\ UNCHANGED <<pvars, net, wire>>
    \/ \E a \in CloseArgs, reason \in CloseReasons : close(a, reason) /\ UNCHANGED <<pvars, net, wire>>
    \/ \E i \in 1..MaxPosts, outcome \in {"rejected", "http-error", "ok"} :
          closeFetchSettled(i, outcome) /\ UNCHANGED <<pvars, net, wire>>
    \/ \E i \in 1..MaxPosts, rejected \in BOOLEAN, closeInfo \in CloseInfos :
          closeJsonSettled(i, rejected, closeInfo) /\ UNCHANGED <<pvars, net, wire>>
    \/ \E i \in 1..MaxPosts : closeTimeout(i) /\ UNCHANGED <<pvars, net, wire>>

\* ================================================================== proxy
\* SSEWebSocketProxy of src/proxy/src/index.ts (lines 528-1141): its HTTP
\* handlers, the handlers it puts on each backend WebSocket and on each SSE
\* response, its keepalive and cleanup timers.  The requests, the backend's
\* behaviour and the passing of time are inputs.

\* ---------------------------------------------------------- proxy bounds
\* SSE connections the proxy accepts (Client objects created)
MaxConns == 2
\* POST requests (send and close) that find their session
MaxRequests == 2
\* the POST requests that ProxySpec lets find their session
MaxSessionRequests == 1

\* ---------------------------------------------------------- proxy inputs
Sids == {"s1", "s2"}

\* a URL as text: how it is written.  ok: new URL() accepts it
RawUrl(ok, scheme, host, port) == [ok |-> ok, scheme |-> scheme, host |-> host, port |-> port]
NoUrl == RawUrl(FALSE, "", "", "")

\* new URL(text): the port is "" when absent or the scheme's default
DefaultPort(scheme) ==
    CASE scheme \in {"ws", "http"} -> "80"
      [] scheme \in {"wss", "https"} -> "443"
      [] OTHER -> ""
URL(raw) ==
    [protocol |-> raw.scheme,
     hostname |-> raw.host,
     port |-> IF raw.port = DefaultPort(raw.scheme) THEN "" ELSE raw.port]

\* the backend parameter of a stream-open request
Targets ==
    {RawUrl(TRUE, "ws", "example.com", p) : p \in {"", "80", "8080", "9090"}}
    \cup {RawUrl(TRUE, "wss", "example.com", "8080"),
          RawUrl(TRUE, "ws", "other.org", "8080"),
          RawUrl(TRUE, "ws", "localhost", "3000"),
          NoUrl}

\* the targets of the sessions' stream-open requests: one allowed, one denied
SessionTargets == {RawUrl(TRUE, "ws", "example.com", "8080"), RawUrl(TRUE, "ws", "other.org", "8080")}

\* the configurations tried: an allow-list alone (an entry with a port, an
\* entry without), the loopback mode, and the allow-any-host override
Config(hosts, loopback, any) ==
    [allowedHosts |-> hosts, allowAnyLocalhostPort |-> loopback, dangerouslyAllowAnyHost |-> any]
\* the configuration of the sessions' proxy: an allow-list of one entry
SessionConfig == Config({RawUrl(TRUE, "http", "example.com", "8080")}, FALSE, FALSE)
Configs ==
    {Config({RawUrl(TRUE, "http", "example.com", "8080"), RawUrl(FALSE, "", "other.org", "8080")},
            FALSE, FALSE),
     Config({RawUrl(TRUE, "ws", "example.com", "")}, FALSE, FALSE),
     Config({}, TRUE, FALSE),
     Config({}, FALSE, TRUE)}

\* close codes and reasons of a backend close event, and of a close request
BackendCodes == {1000, 4002}
BackendReasons == {"bye"}
RequestCodes == {0, 3000}
RequestReasons == {"done"}

\* the body of a POST /messages: text that is not JSON, JSON without a string
\* type, a type that is neither text nor binary, data that is no string, or a
\* text or binary request
SendBodyKinds == {"invalid-json", "no-type", "bogus-type", "text-no-data", "text", "binary"}
\* the body of a POST /close: text that is not JSON, the object {}, or an
\* object {code, reason}; code 0: no code
CloseBodies ==
    {[json |-> FALSE, object |-> FALSE, code |-> 0, reason |-> ""],
     [json |-> TRUE, object |-> TRUE, code |-> 0, reason |-> ""]}
    \cup {[json |-> TRUE, object |-> TRUE, code |-> c, reason |-> r] :
             c \in RequestCodes \ {0}, r \in RequestReasons}

\* the body null: JSON.parse accepts it, the handler's destructuring
\* const { code = 1000, reason = '' } = data throws a TypeError on it
NullBody == [json |-> TRUE, object |-> FALSE, code |-> 0, reason |-> ""]

\* the health secret: of the environment (SSE_WS_PROXY_HEALTH_SECRET) and of the query
Secrets == {"", "s3cret", "guess"}

\* ------------------------------------------------------- proxy's objects
\* a Client object with what was done to its websocket and its sseResponse
NewClient(sid) ==
    [sessionId |-> sid,
     ws |-> "CONNECTING",     \* websocket.readyState
     wsOpened |-> FALSE,      \* the websocket has emitted open
     res |-> "open",          \* sseResponse: "open", "ended" (end() was called),
                              \* "closed" (it has emitted close: destroyed)
     stale |-> FALSE,         \* now - lastActivity > connectionTimeout
     keepaliveInterval |-> "armed",  \* the interval of the pings, or "cleared"
     closeCalls |-> <<>>]     \* the calls of websocket.close and websocket.terminate

\* websocket.close(code, reason) or websocket.terminate(), by whom; code 0: no code
CloseCall(op, code, reason) == [op |-> op, code |-> code, reason |-> reason]

NoResp ==
    [req |-> "none", sid |-> "", status |-> 0, code |-> 0, reason |-> "", wasClean |-> FALSE,
     detailed |-> FALSE, count |-> 0, target |-> NoUrl, secret |-> "", supplied |-> ""]
Resp(req, status) == [NoResp EXCEPT !.req = req, !.status = status]
CloseResp(code, reason, wasClean) ==
    [Resp("close", 200) EXCEPT !.code = code, !.reason = reason, !.wasClean = wasClean]

\* a frame written on the sseResponse of the Client conn (0: nothing written)
NoWrite == [conn |-> 0, frame |-> Frame("", "", 0, "", FALSE)]
\* data passed to the websocket of the Client conn, and its readyState then
NoSend == [conn |-> 0, binary |-> FALSE, data |-> "", ws |-> ""]

\* the registry and the Client objects, with the frame written, as one value
\* that the helpers pass on
Proxy == [clients |-> clients, conns |-> conns, written |-> NoWrite]
\* A Client whose socket is CLOSED and whose stream is destroyed is referenced
\* by no listener or registry entry that reads anything but its readyState,
\* and its keepalive callback, if still armed, only clears itself: its other
\* fields are unobservable and are dropped, as the garbage collector drops
\* them.
Collect(client) ==
    IF client.ws = "CLOSED" /\ client.res = "closed"
    THEN [client EXCEPT !.sessionId = "", !.wsOpened = FALSE, !.stale = FALSE,
                        !.closeCalls = <<>>]
    ELSE client
\* lastActivity is read by cleanupInactiveConnections alone, and only of the
\* Clients in the registry: that of a Client that has left the registry, which
\* it never enters again, is unobservable and is dropped as well
Forget(p, c) ==
    IF p.conns[c].sessionId \in Sids /\ p.clients[p.conns[c].sessionId] = c
    THEN p.conns[c]
    ELSE [p.conns[c] EXCEPT !.stale = FALSE]
CommitProxy(p) ==
    /\ clients' = p.clients
    /\ conns' = [c \in DOMAIN p.conns |-> Collect(Forget(p, c))]
    /\ lastFrame' = p.written

\* sendSSEMessage(res, encodedData) on the sseResponse of the Client c
sendSSEMessage(p, c, frame) ==
    IF p.conns[c].res # "open"
    THEN p
    ELSE [p EXCEPT !.written = [conn |-> c, frame |-> frame]]

\* cleanupClient that leaves the session in the registry
cleanupClient_KeepEntry(p, sid, reason) ==
    LET c == p.clients[sid] IN
    IF c = 0
    THEN p
    ELSE LET client == p.conns[c]
             closed ==
                 IF client.ws = "OPEN"
                 THEN [client EXCEPT
                         !.ws = "CLOSING",
                         !.closeCalls =
                             Append(@, IF reason \in {"sse-closed", "sse-aborted"}
                                       THEN CloseCall("close", GoingAway, "Client going away")
                                       ELSE CloseCall("close", 0, ""))]
                 ELSE client
         IN [p EXCEPT !.conns[c] = [closed EXCEPT !.res = IF @ = "open" THEN "ended" ELSE @]]

\* cleanupClient(sessionId, reason)
cleanupClient(p, sid, reason) ==
    LET c == p.clients[sid] IN
    IF c = 0
    THEN p
    ELSE LET client == p.conns[c]
             closed ==
                 IF client.ws = "OPEN"
                 THEN [client EXCEPT
                         !.ws = "CLOSING",
                         !.closeCalls =
                             Append(@, IF reason \in {"sse-closed", "sse-aborted"}
                                       THEN CloseCall("close", GoingAway, "Client going away")
                                       ELSE CloseCall("close", 0, ""))]
                 ELSE client
         IN [p EXCEPT !.clients[sid] = 0,
                      !.conns[c] = [closed EXCEPT !.res = IF @ = "open" THEN "ended" ELSE @]]

\* ------------------------------------------------- Host Allowlist Guard
normalizeProtocol(p) ==
    CASE p = "ws" -> "http"
      [] p = "wss" -> "https"
      [] OTHER -> p

\* `${hostname}:${port}` when the URL has a port, else its hostname
HostWithPort(url) == <<url.hostname, url.port>>

\* the test of one allow-list entry against the target
EntryMatches(url, allowedUrl) ==
    /\ \/ HostWithPort(url) = HostWithPort(allowedUrl)
       \/ url.hostname = allowedUrl.hostname
    /\ normalizeProtocol(url.protocol) = normalizeProtocol(allowedUrl.protocol)

\* isBackendAllowed(backendUrl)
isBackendAllowed(backendUrl) ==
    IF ~backendUrl.ok
    THEN FALSE
    ELSE LET url == URL(backendUrl) IN
         \/ config.dangerouslyAllowAnyHost
         \/ /\ config.allowAnyLocalhostPort
            /\ url.hostname \in {"localhost", "127.0.0.1", "::1"}
         \/ \E allowedHost \in config.allowedHosts :
               allowedHost.ok /\ EntryMatches(url, URL(allowedHost))

ProxyTypeOK ==
    /\ config \in Configs \cup {SessionConfig}
    /\ clients \in [Sids -> 0..MaxConns]
    /\ Len(conns) <= MaxConns
    /\ \A c \in 1..Len(conns) :
          /\ conns[c].sessionId \in Sids \cup {""}
          /\ conns[c].ws \in {"CONNECTING", "OPEN", "CLOSING", "CLOSED"}
          /\ conns[c].res \in {"open", "ended", "closed"}
    /\ Len(requests) <= MaxRequests
    /\ \A r \in 1..Len(requests) :
          /\ requests[r].kind \in {"send", "close"}
          /\ requests[r].conn \in 1..Len(conns)
          /\ requests[r].phase \in {"body", "waiting", "done", "failed"}
          /\ requests[r].timer \in {"none", "armed", "cleared", "fired"}
    /\ lastResp.status \in {0, 200, 400, 403, 404, 503}

\* the proxy after construction and start(): no session, no request
ProxyInit ==
    /\ clients = [sid \in Sids |-> 0]
    /\ conns = <<>>
    /\ requests = <<>>
    /\ lastResp = NoResp
    /\ lastFrame = NoWrite
    /\ lastSend = NoSend

\* handleSSEConnection without the call of the guard
handleSSEConnection_NoGuard(sid, hasBackend, backendUrl) ==
    /\ IF ~hasBackend
       THEN /\ lastResp' = Resp("sse", 400)
            /\ UNCHANGED <<clients, conns>>
       ELSE /\ Len(conns) < MaxConns
            /\ lastResp' = [Resp("sse", 200) EXCEPT !.sid = sid, !.target = backendUrl]
            /\ CommitProxy([Proxy EXCEPT !.conns = Append(conns, NewClient(sid)),
                                         !.clients[sid] = Len(conns) + 1])
    /\ lastFrame' = NoWrite
    /\ lastSend' = NoSend
    /\ UNCHANGED <<config, requests>>


\* ----------------------------------------------------------- open stream
\* handleSSEConnection(req, res): GET /sse?backend=...&sessionId=...
handleSSEConnection(sid, hasBackend, backendUrl) ==
    /\ IF ~hasBackend
       THEN /\ lastResp' = Resp("sse", 400)
            /\ UNCHANGED <<clients, conns>>
       ELSE IF ~isBackendAllowed(backendUrl)
            THEN /\ lastResp' = [Resp("sse", 403) EXCEPT !.target = backendUrl]
                 /\ UNCHANGED <<clients, conns>>
            ELSE /\ Len(conns) < MaxConns
                 /\ lastResp' = [Resp("sse", 200) EXCEPT !.sid = sid, !.target = backendUrl]
                 /\ CommitProxy([Proxy EXCEPT !.conns = Append(conns, NewClient(sid)),
                                              !.clients[sid] = Len(conns) + 1])
    /\ lastFrame' = NoWrite
    /\ lastSend' = NoSend
    /\ UNCHANGED <<config, requests>>

\* the keepalive interval of the Client c fires: res.destroyed is false until
\* the response has emitted close, so the callback of a stream that was ended
\* still calls sendSSEMessage (whose write after end() puts no frame on the
\* stream) and refreshes lastActivity
keepalive(c) ==
    /\ c \in 1..Len(conns)
    /\ conns[c].keepaliveInterval = "armed"
    /\ IF conns[c].res # "closed"
       THEN CommitProxy([sendSSEMessage(Proxy, c, Frame("ping", "", 0, "", FALSE))
                            EXCEPT !.conns[c].stale = FALSE])
       ELSE CommitProxy([Proxy EXCEPT !.conns[c].keepaliveInterval = "cleared"])
    /\ lastResp' = NoResp
    /\ lastSend' = NoSend
    /\ UNCHANGED <<config, requests>>

\* res.on('close') and req.on('aborted') of setupSSECleanup, for the stream of
\* the Client c.  A stream that the peer drops emits both, in either order
\* (first: the one handled first); a stream that the proxy has ended emits
\* close alone.
setupSSECleanup(c, first) ==
    /\ c \in 1..Len(conns)
    /\ conns[c].res \in {"open", "ended"}
    /\ conns[c].res = "ended" => first = "sse-closed"
    /\ LET gone == [Proxy EXCEPT !.conns[c].res = "closed"]
           sid == conns[c].sessionId
           other == IF first = "sse-closed" THEN "sse-aborted" ELSE "sse-closed"
       IN IF conns[c].res = "open"
          THEN CommitProxy(cleanupClient(cleanupClient(gone, sid, first), sid, other))
          ELSE CommitProxy(cleanupClient(gone, sid, "sse-closed"))
    /\ lastResp' = NoResp
    /\ lastSend' = NoSend
    /\ UNCHANGED <<config, requests>>

\* ---------------------------------------------------- backend websocket
\* websocket.on('open')
wsOnOpen(c) ==
    /\ c \in 1..Len(conns)
    /\ conns[c].ws = "CONNECTING"
    /\ LET opened == [Proxy EXCEPT !.conns[c].ws = "OPEN", !.conns[c].wsOpened = TRUE]
       IN CommitProxy(sendSSEMessage(opened, c, Frame("websocket-connected", "", 0, "", FALSE)))
    /\ lastResp' = NoResp
    /\ lastSend' = NoSend
    /\ UNCHANGED <<config, requests>>

\* Buffer.from(data).toString('base64') of a backend binary message
toBase64(data) == IF data = "0x01 0x02" THEN "AQI=" ELSE ""

\* websocket.on('message')
wsOnMessage(c, data, isBinary) ==
    /\ c \in 1..Len(conns)
    /\ conns[c].ws \in {"OPEN", "CLOSING"}
    /\ conns[c].wsOpened
    /\ LET active == [Proxy EXCEPT !.conns[c].stale = FALSE]
           frame == IF isBinary
                    THEN Frame("binary-message", toBase64(data), 0, "", FALSE)
                    ELSE Frame("message", data, 0, "", FALSE)
       IN CommitProxy(sendSSEMessage(active, c, frame))
    /\ lastResp' = NoResp
    /\ lastSend' = NoSend
    /\ UNCHANGED <<config, requests>>

\* an error handler that also cleans the session up
wsOnError_Cleanup(c) ==
    /\ c \in 1..Len(conns)
    /\ conns[c].ws \in {"CONNECTING", "OPEN", "CLOSING"}
    /\ LET failed == [Proxy EXCEPT !.conns[c].ws = "CLOSING"]
           told == sendSSEMessage(failed, c,
                                  Frame("websocket-error", "backend error", 0, "", FALSE))
       IN CommitProxy(cleanupClient(told, conns[c].sessionId, "websocket-closed"))
    /\ lastResp' = NoResp
    /\ lastSend' = NoSend
    /\ UNCHANGED <<config, requests>>

\* websocket.on('error'); the websocket is closing from then on
wsOnError(c) ==
    /\ c \in 1..Len(conns)
    /\ conns[c].ws \in {"CONNECTING", "OPEN", "CLOSING"}
    /\ LET failed == [Proxy EXCEPT !.conns[c].ws = "CLOSING"]
       IN CommitProxy(sendSSEMessage(failed, c,
                                     Frame("websocket-error", "backend error", 0, "", FALSE)))
    /\ lastResp' = NoResp
    /\ lastSend' = NoSend
    /\ UNCHANGED <<config, requests>>

\* wasClean without its upper limit
WasClean_NoUpperLimit(code) == code >= 1000

\* wasClean of a close code, as both close handlers compute it
WasClean(code) == code >= 1000 /\ code <= 1003

\* the websocket-closed frame without the reason
WebSocketClosedFrame_NoReason(code, reason) ==
    Frame("websocket-closed", "", code, "", WasClean(code))

\* the websocket-closed frame of websocket.on('close')
WebSocketClosedFrame(code, reason) ==
    Frame("websocket-closed", "", code, reason, WasClean(code))

\* closeHandler without its responseSent check: it answers every time
closeHandler_NoFlag(r, actualCode, actualReason) ==
    [r EXCEPT !.timer = IF @ = "armed" THEN "cleared" ELSE @,
              !.responseSent = TRUE,
              !.phase = "done",
              !.responses = @ + 1]

\* closeHandler(actualCode, actualReason) of the close request r, by way of
\* the once('close') listener that clears the timer first
closeHandler(r, actualCode, actualReason) ==
    IF r.responseSent
    THEN [r EXCEPT !.timer = IF @ = "armed" THEN "cleared" ELSE @]
    ELSE [r EXCEPT !.timer = IF @ = "armed" THEN "cleared" ELSE @,
                   !.responseSent = TRUE,
                   !.phase = "done",
                   !.responses = @ + 1]

\* the close listeners of the requests that wait on the websocket of Client c
CloseListeners(c) ==
    {r \in 1..Len(requests) :
        requests[r].kind = "close" /\ requests[r].conn = c /\ requests[r].listening}

\* the close events a websocket can emit: 1006 without a reason when it never
\* opened or lost its connection; else what the backend's close frame carries:
\* the backend's own code, or the code of the close call it answers (1005
\* when that call gave no code)
CallsOf(client) == {client.closeCalls[i] : i \in 1..Len(client.closeCalls)}
CloseEventsOf(client) ==
    {[code |-> AbnormalClosure, reason |-> ""]}
    \cup IF client.wsOpened
         THEN {[code |-> code, reason |-> reason] :
                  code \in BackendCodes, reason \in BackendReasons}
              \cup {[code |-> IF call.code = 0 THEN 1005 ELSE call.code,
                     reason |-> call.reason] : call \in CallsOf(client)}
         ELSE {}

\* websocket.on('close') of setupWebSocketHandlers, then the once('close')
\* listeners of the close requests, in the order they were added
wsOnClose(c, ev) ==
    /\ c \in 1..Len(conns)
    /\ conns[c].ws # "CLOSED"
    /\ ev \in CloseEventsOf(conns[c])
    /\ LET closed == [Proxy EXCEPT !.conns[c].ws = "CLOSED"]
           told == sendSSEMessage(closed, c, WebSocketClosedFrame(ev.code, ev.reason))
       IN CommitProxy(cleanupClient(told, conns[c].sessionId, "websocket-closed"))
    /\ requests' = [r \in 1..Len(requests) |->
                       IF r \in CloseListeners(c)
                       THEN [closeHandler(requests[r], ev.code, ev.reason)
                                EXCEPT !.listening = FALSE]
                       ELSE requests[r]]
    /\ lastResp' = IF CloseListeners(c) = {}
                   THEN NoResp
                   ELSE LET r == CHOOSE r \in CloseListeners(c) :
                                    \A q \in CloseListeners(c) : q <= r
                        IN IF requests[r].responseSent
                           THEN NoResp
                           ELSE [CloseResp(ev.code, ev.reason, WasClean(ev.code))
                                    EXCEPT !.sid = requests[r].sid]
    /\ lastSend' = NoSend
    /\ UNCHANGED config

\* ------------------------------------------------------------- POST /messages
NewRequest(kind, sid) ==
    [kind |-> kind,
     sid |-> sid,             \* the x-session-id header
     conn |-> clients[sid],   \* client: the Client found in the registry
     phase |-> "body",        \* "body" (being read), "waiting" (for the close), "done",
                              \* "failed" (the handler threw)
     code |-> 0,              \* code and reason of the handler of a close request
     reason |-> "",
     timer |-> "none",        \* timeout: "none", "armed", "cleared" or "fired"
     listening |-> FALSE,     \* the once('close') listener is on the websocket
     responseSent |-> FALSE,
     responses |-> 0]         \* the responses written to res

\* handleMessageSend without its check of the websocket's readyState
handleMessageSend_NoOpenCheck(hasHeader, sid) ==
    /\ IF ~hasHeader
       THEN /\ lastResp' = Resp("send", 400)
            /\ UNCHANGED requests
       ELSE IF clients[sid] = 0
            THEN /\ lastResp' = [Resp("send", 404) EXCEPT !.sid = sid]
                 /\ UNCHANGED requests
            ELSE /\ Len(requests) < MaxRequests
                 /\ requests' = Append(requests, NewRequest("send", sid))
                 /\ lastResp' = NoResp
    /\ lastFrame' = NoWrite
    /\ lastSend' = NoSend
    /\ UNCHANGED <<config, clients, conns>>


\* handleMessageSend(req, res) up to the reading of the body
handleMessageSend(hasHeader, sid) ==
    /\ IF ~hasHeader
       THEN /\ lastResp' = Resp("send", 400)
            /\ UNCHANGED requests
       ELSE IF clients[sid] = 0
            THEN /\ lastResp' = [Resp("send", 404) EXCEPT !.sid = sid]
                 /\ UNCHANGED requests
            ELSE IF conns[clients[sid]].ws # "OPEN"
                 THEN /\ lastResp' = [Resp("send", 503) EXCEPT !.sid = sid]
                      /\ UNCHANGED requests
                 ELSE /\ Len(requests) < MaxRequests
                      /\ requests' = Append(requests, NewRequest("send", sid))
                      /\ lastResp' = NoResp
    /\ lastFrame' = NoWrite
    /\ lastSend' = NoSend
    /\ UNCHANGED <<config, clients, conns>>

\* decodeMessageRequest(jsonData): TRUE when it returns, FALSE when it throws
decodeMessageRequest(bodyKind) == bodyKind \in {"text", "binary"}

\* decodeBinaryData(base64Data)
decodeBinaryData(base64Data) == IF base64Data = "AQI=" THEN "0x01 0x02" ELSE "0x"

\* the data of a send request, by its type
SendData(bodyKind) == IF bodyKind = "binary" THEN "AQI=" ELSE "ping"

\* the handler refreshing lastActivity before it decodes the body
handleMessageSendEnd_RefreshFirst(r, bodyKind) ==
    /\ r \in 1..Len(requests)
    /\ requests[r].kind = "send"
    /\ requests[r].phase = "body"
    /\ LET c == requests[r].conn
           data == IF bodyKind = "binary"
                   THEN decodeBinaryData(SendData(bodyKind))
                   ELSE SendData(bodyKind)
           status == IF decodeMessageRequest(bodyKind) THEN 200 ELSE 400
       IN /\ lastSend' = IF decodeMessageRequest(bodyKind)
                         THEN [conn |-> c, binary |-> bodyKind = "binary",
                               data |-> data, ws |-> conns[c].ws]
                         ELSE NoSend
          /\ conns' = [conns EXCEPT ![c].stale = FALSE]
          /\ requests' = [requests EXCEPT ![r].phase = "done", ![r].responses = @ + 1]
          /\ lastResp' = [Resp("send", status) EXCEPT !.sid = requests[r].sid]
    /\ lastFrame' = NoWrite
    /\ UNCHANGED <<config, clients>>

\* req.on('end') of handleMessageSend, for the request r
handleMessageSendEnd(r, bodyKind) ==
    /\ r \in 1..Len(requests)
    /\ requests[r].kind = "send"
    /\ requests[r].phase = "body"
    /\ LET c == requests[r].conn
           data == IF bodyKind = "binary"
                   THEN decodeBinaryData(SendData(bodyKind))
                   ELSE SendData(bodyKind)
           status == IF decodeMessageRequest(bodyKind) THEN 200 ELSE 400
       IN /\ IF decodeMessageRequest(bodyKind)
             THEN /\ lastSend' = [conn |-> c, binary |-> bodyKind = "binary",
                                  data |-> data, ws |-> conns[c].ws]
                  /\ conns' = [conns EXCEPT ![c].stale = FALSE]
             ELSE /\ lastSend' = NoSend
                  /\ UNCHANGED conns
          /\ requests' = [requests EXCEPT ![r].phase = "done", ![r].responses = @ + 1]
          /\ lastResp' = [Resp("send", status) EXCEPT !.sid = requests[r].sid]
    /\ lastFrame' = NoWrite
    /\ UNCHANGED <<config, clients>>

\* ---------------------------------------------------------------- POST /close
\* handleRequestWithSession(req, res, {}, handler) up to the reading of the body
handleCloseRequest(hasHeader, sid) ==
    /\ IF ~hasHeader
       THEN /\ lastResp' = Resp("close", 400)
            /\ UNCHANGED requests
       ELSE IF clients[sid] = 0
            THEN /\ lastResp' = [Resp("close", 404) EXCEPT !.sid = sid]
                 /\ UNCHANGED requests
            ELSE /\ Len(requests) < MaxRequests
                 /\ requests' = Append(requests, NewRequest("close", sid))
                 /\ lastResp' = NoResp
    /\ lastFrame' = NoWrite
    /\ lastSend' = NoSend
    /\ UNCHANGED <<config, clients, conns>>

\* const { code = 1000, reason = '' } = data
RequestedCode(body) == IF body.code = 0 THEN NormalClosure ELSE body.code

\* the handler of handleCloseRequest closing without the code and the reason
handleCloseRequestEnd_NoCode(r, body) ==
    /\ r \in 1..Len(requests)
    /\ requests[r].kind = "close"
    /\ requests[r].phase = "body"
    /\ LET c == requests[r].conn IN
       IF ~body.json
       THEN /\ requests' = [requests EXCEPT ![r].phase = "done", ![r].responses = @ + 1]
            /\ lastResp' = [Resp("close", 400) EXCEPT !.sid = requests[r].sid]
            /\ UNCHANGED conns
       ELSE IF ~body.object
       THEN /\ requests' = [requests EXCEPT ![r].phase = "failed"]
            /\ lastResp' = NoResp
            /\ UNCHANGED conns
       ELSE /\ requests' = [requests EXCEPT ![r].phase = "waiting",
                                            ![r].code = RequestedCode(body),
                                            ![r].reason = body.reason,
                                            ![r].timer = "armed",
                                            ![r].listening = TRUE]
            /\ lastResp' = NoResp
            /\ conns' =
                 CASE conns[c].ws = "CONNECTING" ->
                        [conns EXCEPT ![c].ws = "CLOSING",
                                      ![c].closeCalls = Append(@, CloseCall("terminate", 0, ""))]
                   [] conns[c].ws = "OPEN" ->
                        [conns EXCEPT ![c].ws = "CLOSING",
                                      ![c].closeCalls = Append(@, CloseCall("close", 0, ""))]
                   [] OTHER -> conns
    /\ lastFrame' = NoWrite
    /\ lastSend' = NoSend
    /\ UNCHANGED <<config, clients>>

\* req.on('end') of handleRequestWithSession and the handler of
\* handleCloseRequest, for the request r
handleCloseRequestEnd(r, body) ==
    /\ r \in 1..Len(requests)
    /\ requests[r].kind = "close"
    /\ requests[r].phase = "body"
    /\ LET c == requests[r].conn IN
       IF ~body.json
       THEN /\ requests' = [requests EXCEPT ![r].phase = "done", ![r].responses = @ + 1]
            /\ lastResp' = [Resp("close", 400) EXCEPT !.sid = requests[r].sid]
            /\ UNCHANGED conns
       ELSE IF ~body.object
       THEN /\ requests' = [requests EXCEPT ![r].phase = "failed"]
            /\ lastResp' = NoResp
            /\ UNCHANGED conns
       ELSE /\ requests' = [requests EXCEPT ![r].phase = "waiting",
                                            ![r].code = RequestedCode(body),
                                            ![r].reason = body.reason,
                                            ![r].timer = "armed",
                                            ![r].listening = TRUE]
            /\ lastResp' = NoResp
            /\ conns' =
                 CASE conns[c].ws = "CONNECTING" ->
                        [conns EXCEPT ![c].ws = "CLOSING",
                                      ![c].closeCalls = Append(@, CloseCall("terminate", 0, ""))]
                   [] conns[c].ws = "OPEN" ->
                        [conns EXCEPT ![c].ws = "CLOSING",
                                      ![c].closeCalls =
                                          Append(@, CloseCall("close",
                                                              RequestedCode(body), body.reason))]
                   [] OTHER -> conns
    /\ lastFrame' = NoWrite
    /\ lastSend' = NoSend
    /\ UNCHANGED <<config, clients>>

\* the 5 s timeout of handleCloseRequest fires for the request r
closeRequestTimeout(r) ==
    /\ r \in 1..Len(requests)
    /\ requests[r].timer = "armed"
    /\ IF requests[r].responseSent
       THEN /\ requests' = [requests EXCEPT ![r].timer = "fired"]
            /\ lastResp' = NoResp
       ELSE /\ requests' = [requests EXCEPT
                              ![r].timer = "fired",
                              ![r].responseSent = TRUE,
                              ![r].phase = "done",
                              ![r].responses = @ + 1]
            /\ lastResp' = [CloseResp(AbnormalClosure, "Close timeout", FALSE) EXCEPT
                              !.sid = requests[r].sid]
    /\ lastFrame' = NoWrite
    /\ lastSend' = NoSend
    /\ UNCHANGED <<config, clients, conns>>

\* ------------------------------------------------------------ GET /health
\* handleHealthCheck(req, res); secret: SSE_WS_PROXY_HEALTH_SECRET of the
\* environment, supplied: the secret parameter of the query ("": none)
handleHealthCheck(secret, supplied) ==
    /\ lastResp' = [Resp("health", 200) EXCEPT
                      !.detailed = TRUE,
                      !.count = Cardinality({sid \in Sids : clients[sid] # 0}),
                      !.secret = secret,
                      !.supplied = supplied]
    /\ lastFrame' = NoWrite
    /\ lastSend' = NoSend
    /\ UNCHANGED <<config, clients, conns, requests>>

\* ------------------------------------------------------- Inactivity Reaper
\* the Client c is in the registry
Registered(c) ==
    /\ c \in 1..Len(conns)
    /\ conns[c].sessionId \in Sids
    /\ clients[conns[c].sessionId] = c

\* connectionTimeout passes: the lastActivity of every Client in the registry
\* is older than connectionTimeout from now on, until it is refreshed
passTime ==
    /\ \E c \in 1..Len(conns) : Registered(c) /\ ~conns[c].stale
    /\ conns' = [c \in 1..Len(conns) |->
                    IF Registered(c) THEN [conns[c] EXCEPT !.stale = TRUE] ELSE conns[c]]
    /\ lastResp' = NoResp
    /\ lastFrame' = NoWrite
    /\ lastSend' = NoSend
    /\ UNCHANGED <<config, clients, requests>>

RECURSIVE reap(_, _)
reap(p, sids) ==
    IF sids = {}
    THEN p
    ELSE LET sid == CHOOSE s \in sids : TRUE
             q == IF p.clients[sid] # 0 /\ p.conns[p.clients[sid]].stale
                  THEN cleanupClient(p, sid, "timeout")
                  ELSE p
         IN reap(q, sids \ {sid})

\* cleanupInactiveConnections(), run by the cleanup interval
cleanupInactiveConnections ==
    /\ CommitProxy(reap(Proxy, Sids))
    /\ lastResp' = NoResp
    /\ lastSend' = NoSend
    /\ UNCHANGED <<config, requests>>

\* the session ids a new stream may carry: the two ids are interchangeable,
\* so the first session opened is named "s1"
StreamSids == IF conns = <<>> THEN {"s1"} ELSE Sids

ProxyNext ==
    \/ \E sid \in StreamSids, backendUrl \in SessionTargets :
          handleSSEConnection(sid, TRUE, backendUrl) /\ UNCHANGED <<vars, net, wire>>
    \/ handleSSEConnection("s1", FALSE, NoUrl) /\ UNCHANGED <<vars, net, wire>>
    \/ \E c \in 1..MaxConns : keepalive(c) /\ UNCHANGED <<vars, net, wire>>
    \/ \E c \in 1..MaxConns, first \in {"sse-closed", "sse-aborted"} :
          setupSSECleanup(c, first) /\ UNCHANGED <<vars, net, wire>>
    \/ \E c \in 1..MaxConns : wsOnOpen(c) /\ UNCHANGED <<vars, net, wire>>
    \/ \E c \in 1..MaxConns, isBinary \in BOOLEAN :
          wsOnMessage(c, IF isBinary THEN "0x01 0x02" ELSE "ping", isBinary) /\ UNCHANGED <<vars, net, wire>>
    \/ \E c \in 1..MaxConns : wsOnError(c) /\ UNCHANGED <<vars, net, wire>>
    \/ \E c \in 1..MaxConns :
          \E ev \in CloseEventsOf(IF c <= Len(conns) THEN conns[c] ELSE NewClient("s1")) :
              wsOnClose(c, ev) /\ UNCHANGED <<vars, net, wire>>
    \/ \E sid \in Sids :
          /\ handleMessageSend(TRUE, sid)
          /\ Len(requests') <= MaxSessionRequests
          /\ UNCHANGED <<vars, net, wire>>
    \/ handleMessageSend(FALSE, "") /\ UNCHANGED <<vars, net, wire>>
    \/ \E r \in 1..MaxRequests, bodyKind \in SendBodyKinds :
          handleMessageSendEnd(r, bodyKind) /\ UNCHANGED <<vars, net, wire>>
    \/ \E sid \in Sids :
          /\ handleCloseRequest(TRUE, sid)
          /\ Len(requests') <= MaxSessionRequests
          /\ UNCHANGED <<vars, net, wire>>
    \/ handleCloseRequest(FALSE, "") /\ UNCHANGED <<vars, net, wire>>
    \/ \E r \in 1..MaxRequests, body \in CloseBodies :
          handleCloseRequestEnd(r, body) /\ UNCHANGED <<vars, net, wire>>
    \/ \E r \in 1..MaxRequests : closeRequestTimeout(r) /\ UNCHANGED <<vars, net, wire>>
    \/ passTime /\ UNCHANGED <<vars, net, wire>>
    \/ cleanupInactiveConnections /\ UNCHANGED <<vars, net, wire>>

\* ============================================================== the system
\* One SimulatedWebsocket and the proxy, joined by what the socket's
\* EventSource and its fetch() calls carry: the frames the proxy writes on the
\* socket's stream reach eventSource.onmessage in order, the body of the close
\* POST reaches handleCloseRequest, and the response the proxy writes settles
\* the socket's fetch.  The backend's behaviour, the timers and the scheduling
\* of the deliveries are inputs.

\* frames written by the proxy and not yet handled by the socket
MaxInFlight == 2

NoCloseInfo == [code |-> 0, reason |-> "", wasClean |-> FALSE]
\* the POST of sendCloseRequest: "none", "sent", "taken" (by handleCloseRequest),
\* "answered" (by the proxy), "json" (fetch resolved), "done"
NoPost ==
    [state |-> "none", code |-> 0, reason |-> "", request |-> 0, status |-> 0,
     closeInfo |-> NoCloseInfo]
\* the close event of the websocket behind the socket's stream, and the calls
\* of close and terminate the proxy had made on it
NoBackendClose ==
    [seen |-> FALSE, opened |-> FALSE, code |-> 0, reason |-> "", calls |-> <<>>]
NoNet == [frames |-> <<>>, post |-> NoPost, backendClose |-> NoBackendClose]
\* no payload is followed
NoWire ==
    [op |-> "none", text |-> <<>>, data |-> <<>>, byteOffset |-> 0, split |-> 0, out |-> <<>>]
NetInit == net = NoNet /\ wire = NoWire

\* the Client object of the socket's EventSource connection (0: none yet)
Stream == Len(conns)
\* the socket's stream is not open at the proxy
StreamOver == IF conns = <<>> THEN TRUE ELSE conns[Stream].res # "open"

\* the frame with the session's secret, the first frame the socket expects on
\* its stream (SimulatedWebsocket.handleProxyMessage, case "session-secret")
SessionSecretFrame == Frame("session-secret", "", 0, "", FALSE)

\* the frames in flight after a step of the proxy: with the frame it wrote on
\* the socket's stream
Written(frames) ==
    IF lastFrame'.conn # 0 /\ lastFrame'.conn = Len(conns')
    THEN Append(frames, lastFrame'.frame)
    ELSE frames
\* the close POST after a step of the proxy: with the response it wrote
Answered(post) ==
    IF post.state \in {"sent", "taken"} /\ lastResp'.req = "close"
    THEN [post EXCEPT !.state = "answered",
                      !.status = lastResp'.status,
                      !.closeInfo = [code |-> lastResp'.code, reason |-> lastResp'.reason,
                                     wasClean |-> lastResp'.wasClean]]
    ELSE post
\* a step of the proxy, seen from the socket
Relay ==
    /\ net' = [net EXCEPT !.frames = Written(@), !.post = Answered(@)]
    /\ Len(net'.frames) <= MaxInFlight
    /\ UNCHANGED vars

\* new EventSource(sseUrl), and the EventSource's reconnection when its
\* stream ended: GET /sse with the socket's session id
SysConnect(backendUrl) ==
    /\ eventSource = "open"
    /\ net.frames = <<>>
    /\ StreamOver
    /\ handleSSEConnection("s1", TRUE, backendUrl)
    /\ net' = [net EXCEPT !.frames = IF lastResp'.status = 200
                                     THEN <<SessionSecretFrame>>
                                     ELSE <<>>]
    /\ UNCHANGED vars

\* the backend answers the websocket's handshake
SysBackendOpen(c) == wsOnOpen(c) /\ Relay
\* the websocket fails
SysBackendError(c) == wsOnError(c) /\ Relay
\* the websocket closes
SysBackendClose(c, ev) ==
    /\ wsOnClose(c, ev)
    /\ net' = [net EXCEPT
                 !.frames = Written(@),
                 !.post = Answered(@),
                 !.backendClose =
                     IF c = Stream
                     THEN [seen |-> TRUE, opened |-> conns[c].wsOpened,
                           code |-> ev.code, reason |-> ev.reason,
                           calls |-> conns[c].closeCalls]
                     ELSE @]
    /\ Len(net'.frames) <= MaxInFlight
    /\ UNCHANGED vars
\* the proxy learns that a stream is over: one it ended itself, or one whose
\* EventSource the socket has closed
SysStreamGone(c, first) ==
    /\ c \in 1..Len(conns)
    /\ IF conns[c].res = "open" THEN c # Stream \/ eventSource # "open" ELSE TRUE
    /\ setupSSECleanup(c, first)
    /\ Relay

\* the EventSource delivers the next frame of the stream
SysDeliver ==
    /\ net.frames # <<>>
    /\ onmessage([kind |-> "object", msg |-> Head(net.frames)])
    /\ net' = [net EXCEPT !.frames = Tail(@)]
    /\ UNCHANGED pvars
\* a frame reaches an EventSource that was closed: it is dropped
SysDrop ==
    /\ net.frames # <<>>
    /\ eventSource # "open"
    /\ net' = [net EXCEPT !.frames = Tail(@)]
    /\ UNCHANGED <<vars, pvars>>
\* the EventSource finds its stream over, or fails to connect
SysStreamEnd(esClosed) ==
    /\ net.frames = <<>>
    /\ StreamOver
    /\ onerror(esClosed)
    /\ UNCHANGED <<pvars, net, wire>>

\* the caller's close(code?, reason?), with the POST it issues
SysClose(a, reason) ==
    /\ close(a, reason)
    /\ IF Len(closeRequests') > Len(closeRequests)
       THEN /\ net.post.state = "none"
            /\ net' = [net EXCEPT !.post = [NoPost EXCEPT !.state = "sent",
                                                          !.code = CodeOrDefault(a),
                                                          !.reason = reason]]
       ELSE UNCHANGED net
    /\ UNCHANGED pvars
\* the close POST arrives at the proxy
SysTakeClose ==
    /\ net.post.state = "sent"
    /\ handleCloseRequest(TRUE, "s1")
    /\ net' = [net EXCEPT !.post = IF lastResp'.req = "close"
                                   THEN Answered(@)
                                   ELSE [@ EXCEPT !.state = "taken",
                                                  !.request = Len(requests')]]
    /\ UNCHANGED vars
\* its body has arrived
SysCloseBody ==
    /\ net.post.state = "taken"
    /\ handleCloseRequestEnd(net.post.request,
                             [json |-> TRUE, object |-> TRUE, code |-> net.post.code,
                              reason |-> net.post.reason])
    /\ Relay
\* the timeout of its handler fires
SysProxyTimeout(r) == closeRequestTimeout(r) /\ Relay
\* the response reaches the socket: fetch resolves
SysCloseSettled ==
    /\ net.post.state = "answered"
    /\ closeFetchSettled(Len(closeRequests),
                         IF net.post.status = 200 THEN "ok" ELSE "http-error")
    /\ net' = [net EXCEPT !.post.state = IF net.post.status = 200 THEN "json" ELSE "done"]
    /\ UNCHANGED pvars
\* response.json() resolves
SysCloseJson ==
    /\ net.post.state = "json"
    /\ closeJsonSettled(Len(closeRequests), FALSE, net.post.closeInfo)
    /\ net' = [net EXCEPT !.post.state = "done"]
    /\ UNCHANGED pvars
\* the socket's own timeout fires
SysClientTimeout(i) == closeTimeout(i) /\ UNCHANGED <<pvars, net, wire>>

\* the close() calls tried: without a code, with a code of the application
SysCloseArgs == {NoArgs, [given |-> TRUE, code |-> 3000]}

SystemNext ==
    \/ \E backendUrl \in SessionTargets : SysConnect(backendUrl) /\ UNCHANGED wire
    \/ \E c \in 1..MaxConns : SysBackendOpen(c) /\ UNCHANGED wire
    \/ \E c \in 1..MaxConns : SysBackendError(c) /\ UNCHANGED wire
    \/ \E c \in 1..MaxConns :
          \E ev \in CloseEventsOf(IF c <= Len(conns) THEN conns[c] ELSE NewClient("s1")) :
              SysBackendClose(c, ev) /\ UNCHANGED wire
    \/ \E c \in 1..MaxConns, first \in {"sse-closed", "sse-aborted"} : SysStreamGone(c, first) /\ UNCHANGED wire
    \/ SysDeliver /\ UNCHANGED wire
    \/ SysDrop /\ UNCHANGED wire
    \/ \E esClosed \in BOOLEAN : SysStreamEnd(esClosed) /\ UNCHANGED wire
    \/ \E a \in SysCloseArgs, reason \in CloseReasons : SysClose(a, reason) /\ UNCHANGED wire
    \/ SysTakeClose /\ UNCHANGED wire
    \/ SysCloseBody /\ UNCHANGED wire
    \/ \E r \in 1..MaxRequests : SysProxyTimeout(r) /\ UNCHANGED wire
    \/ SysCloseSettled /\ UNCHANGED wire
    \/ SysCloseJson /\ UNCHANGED wire
    \/ \E i \in 1..MaxPosts : SysClientTimeout(i) /\ UNCHANGED wire

SystemInit == Init /\ ProxyInit /\ NetInit /\ config = SessionConfig

SystemSpec == SystemInit /\ [][SystemNext]_<<vars, pvars, net, wire>>

\* the proxy's admission of streams, under every configuration tried, and its
\* health endpoint
AdmissionNext ==
    \/ \E sid \in Sids, hasBackend \in BOOLEAN, backendUrl \in Targets :
          handleSSEConnection(sid, hasBackend, backendUrl) /\ UNCHANGED <<vars, net, wire>>
    \/ \E c \in 1..MaxConns, first \in {"sse-closed", "sse-aborted"} :
          setupSSECleanup(c, first) /\ UNCHANGED <<vars, net, wire>>
    \/ \E secret \in Secrets, supplied \in Secrets :
          handleHealthCheck(secret, supplied) /\ UNCHANGED <<vars, net, wire>>

AdmissionInit == Init /\ ProxyInit /\ NetInit /\ config \in Configs

AdmissionSpec == AdmissionInit /\ [][AdmissionNext]_<<vars, pvars, net, wire>>

\* the proxy's sessions: the client's socket is not used
SessionInit == Init /\ ProxyInit /\ NetInit /\ config = SessionConfig

ProxySpec == SessionInit /\ [][ProxyNext]_<<vars, pvars, net, wire>>

\* the close requests of one session id: up to MaxRequests of them at a time,
\* with every body a request can carry, against the backend's open, error and
\* close events, the end of the stream and the handlers' timeouts
CloseNext ==
    \/ \E backendUrl \in SessionTargets :
          handleSSEConnection("s1", TRUE, backendUrl) /\ UNCHANGED <<vars, net, wire>>
    \/ \E c \in 1..MaxConns, first \in {"sse-closed", "sse-aborted"} :
          setupSSECleanup(c, first) /\ UNCHANGED <<vars, net, wire>>
    \/ \E c \in 1..MaxConns : wsOnOpen(c) /\ UNCHANGED <<vars, net, wire>>
    \/ \E c \in 1..MaxConns : wsOnError(c) /\ UNCHANGED <<vars, net, wire>>
    \/ \E c \in 1..MaxConns :
          \E ev \in CloseEventsOf(IF c <= Len(conns) THEN conns[c] ELSE NewClient("s1")) :
              wsOnClose(c, ev) /\ UNCHANGED <<vars, net, wire>>
    \/ handleCloseRequest(TRUE, "s1") /\ UNCHANGED <<vars, net, wire>>
    \/ \E r \in 1..MaxRequests, body \in CloseBodies \cup {NullBody} :
          handleCloseRequestEnd(r, body) /\ UNCHANGED <<vars, net, wire>>
    \/ \E r \in 1..MaxRequests : closeRequestTimeout(r) /\ UNCHANGED <<vars, net, wire>>

CloseSpec == SessionInit /\ [][CloseNext]_<<vars, pvars, net, wire>>

\* the proxy as the client's socket leaves it: idle, with one configuration
ProxyIdle ==
    /\ ProxyInit
    /\ config = Config({}, TRUE, FALSE)

\* the client's socket alone: the proxy is not used
SocketInit == Init /\ ProxyIdle /\ NetInit

Spec == SocketInit /\ [][Next]_<<vars, pvars, net, wire>>


\* ================================================================ shutdown
\* The proxy's sessions with its server and the interval of its reaper (which
\* start() sets up), up to and after stop().
StopInit ==
    /\ Init
    /\ ProxyInit
    /\ config = SessionConfig
    /\ net = NoNet
    /\ wire = [server |-> "listening", cleanupInterval |-> "armed"]

\* stop(): the interval is cleared, cleanupClient(sessionId, 'websocket-closed')
\* is called for every key of the registry, and the server is closed
stop ==
    /\ wire.server = "listening"
    /\ LET RECURSIVE closeAll(_, _)
           closeAll(p, sids) ==
               IF sids = {}
               THEN p
               ELSE LET sid == CHOOSE s \in sids : TRUE
                    IN closeAll(cleanupClient(p, sid, "websocket-closed"), sids \ {sid})
       IN CommitProxy(closeAll(Proxy, {sid \in Sids : clients[sid] # 0}))
    /\ wire' = [server |-> "closed", cleanupInterval |-> "cleared"]
    /\ lastResp' = NoResp
    /\ lastSend' = NoSend
    /\ UNCHANGED <<config, requests, vars, net>>

StopNext ==
    \/ \E sid \in StreamSids, backendUrl \in SessionTargets :
          /\ wire.server = "listening"
          /\ handleSSEConnection(sid, TRUE, backendUrl)
          /\ UNCHANGED <<vars, net, wire>>
    \/ \E c \in 1..MaxConns, first \in {"sse-closed", "sse-aborted"} :
          setupSSECleanup(c, first) /\ UNCHANGED <<vars, net, wire>>
    \/ \E c \in 1..MaxConns : wsOnOpen(c) /\ UNCHANGED <<vars, net, wire>>
    \/ \E c \in 1..MaxConns : wsOnError(c) /\ UNCHANGED <<vars, net, wire>>
    \/ \E c \in 1..MaxConns :
          \E ev \in CloseEventsOf(IF c <= Len(conns) THEN conns[c] ELSE NewClient("s1")) :
              wsOnClose(c, ev) /\ UNCHANGED <<vars, net, wire>>
    \/ passTime /\ UNCHANGED <<vars, net, wire>>
    \/ /\ wire.cleanupInterval = "armed"
       /\ cleanupInactiveConnections
       /\ UNCHANGED <<vars, net, wire>>
    \/ stop

StopSpec == StopInit /\ [][StopNext]_<<vars, pvars, net, wire>>

\* ============================================================ send order
\* The send() calls of one socket, numbered in the order they are made, and
\* what becomes of each: a Blob is read first (reading), then the POST is
\* issued (flying), reaches the proxy (taken: request and call) and is passed
\* to the backend's websocket (forwarded, in the order of websocket.send).
\* Every fetch is a request of its own: the POSTs in flight reach the proxy in
\* any order.
OrderInit ==
    /\ Init
    /\ ProxyInit
    /\ config = SessionConfig
    /\ net = NoNet
    /\ wire = [kinds |-> <<>>, reading |-> {}, flying |-> {}, taken |-> {}, forwarded |-> <<>>]

\* send(data) on the OPEN socket: the call Len(wire.kinds) + 1
OrderSend(kind) ==
    /\ readyState = OPEN
    /\ sessionSecret
    /\ send(kind)
    /\ LET id == Len(wire.kinds) + 1 IN
       wire' = IF kind = "blob"
               THEN [wire EXCEPT !.kinds = Append(@, "binary"), !.reading = @ \cup {id}]
               ELSE [wire EXCEPT !.kinds = Append(@, "text"), !.flying = @ \cup {id}]
    /\ UNCHANGED <<pvars, net>>

\* blob.arrayBuffer() of the call id resolves: sendBlob goes on to sendMessage
OrderBlobRead(id) ==
    /\ id \in wire.reading
    /\ sessionSecret
    /\ sendBlob
    /\ wire' = [wire EXCEPT !.reading = @ \ {id}, !.flying = @ \cup {id}]
    /\ UNCHANGED <<pvars, net>>

\* the POST of the call id reaches handleMessageSend
OrderArrive(id) ==
    /\ id \in wire.flying
    /\ handleMessageSend(TRUE, "s1")
    /\ wire' = IF lastResp'.req = "send"
               THEN [wire EXCEPT !.flying = @ \ {id}]
               ELSE [wire EXCEPT !.flying = @ \ {id},
                                 !.taken = @ \cup {<<Len(requests'), id>>}]
    /\ UNCHANGED <<vars, net>>

\* the body of the request r has arrived: websocket.send(data)
OrderForward(r) ==
    /\ \E t \in wire.taken :
          /\ t[1] = r
          /\ handleMessageSendEnd(r, wire.kinds[t[2]])
          /\ wire' = [wire EXCEPT !.taken = @ \ {t},
                                  !.forwarded = IF lastSend' # NoSend
                                                THEN Append(@, t[2])
                                                ELSE @]
    /\ UNCHANGED <<vars, net>>

OrderNext ==
    \/ \E backendUrl \in SessionTargets : SysConnect(backendUrl) /\ UNCHANGED wire
    \/ \E c \in 1..MaxConns : SysBackendOpen(c) /\ UNCHANGED wire
    \/ \E c \in 1..MaxConns :
          \E ev \in CloseEventsOf(IF c <= Len(conns) THEN conns[c] ELSE NewClient("s1")) :
              SysBackendClose(c, ev) /\ UNCHANGED wire
    \/ SysDeliver /\ UNCHANGED wire
    \/ \E kind \in {"data", "blob"} : OrderSend(kind)
    \/ \E id \in 1..MaxPosts : OrderBlobRead(id)
    \/ \E id \in 1..MaxPosts : OrderArrive(id)
    \/ \E r \in 1..MaxRequests : OrderForward(r)

SendOrderSpec == OrderInit /\ [][OrderNext]_<<vars, pvars, net, wire>>

\* ================================================================ payloads
\* What a payload goes through between the caller's send() and the backend's
\* websocket, and back.  Strings are sequences of code points, buffers and
\* bodies sequences of bytes.
\* text payloads: up to MaxText characters of TextChars
MaxText == 3
\* byte buffers: up to MaxBytes bytes of ByteValues
MaxBytes == 4

\* "a", the quote, the line feed, and e-acute (two bytes in UTF-8)
TextChars == {97, 34, 10, 233}
ByteValues == {0, 65, 255}
ReplacementChar == 65533

SeqsUpTo(S, n) == UNION {[1..k -> S] : k \in 0..n}
Texts == SeqsUpTo(TextChars, MaxText)
Buffers == SeqsUpTo(ByteValues, MaxBytes)

RECURSIVE Flatten(_)
Flatten(ss) == IF ss = <<>> THEN <<>> ELSE Head(ss) \o Flatten(Tail(ss))

\* JSON.stringify of a string, without the quotes around it
JsonEscape(s) ==
    LET JsonEscapeChar(c) ==
            CASE c = 34 -> <<92, 34>>
              [] c = 92 -> <<92, 92>>
              [] c = 10 -> <<92, 110>>
              [] OTHER -> <<c>>
    IN  Flatten([i \in 1..Len(s) |-> JsonEscapeChar(s[i])])

\* JSON.parse of the inside of a string literal
RECURSIVE JsonUnescape(_)
JsonUnescape(s) ==
    IF s = <<>> THEN <<>>
    ELSE IF s[1] = 92 /\ Len(s) >= 2
         THEN <<IF s[2] = 110 THEN 10 ELSE s[2]>> \o JsonUnescape(SubSeq(s, 3, Len(s)))
         ELSE <<s[1]>> \o JsonUnescape(Tail(s))

\* the UTF-8 bytes of a string (code points below 2048)
Utf8Encode(s) ==
    LET Utf8Char(c) == IF c < 128 THEN <<c>> ELSE <<192 + (c \div 64), 128 + (c % 64)>>
    IN  Flatten([i \in 1..Len(s) |-> Utf8Char(s[i])])

\* Buffer.toString(): UTF-8 decoding in which a byte that starts or continues
\* no complete character becomes U+FFFD
RECURSIVE Utf8Decode(_)
Utf8Decode(b) ==
    IF b = <<>> THEN <<>>
    ELSE IF b[1] < 128
         THEN <<b[1]>> \o Utf8Decode(Tail(b))
         ELSE IF b[1] \in 194..223 /\ Len(b) >= 2 /\ b[2] \in 128..191
              THEN <<(b[1] - 192) * 64 + (b[2] - 128)>> \o Utf8Decode(SubSeq(b, 3, Len(b)))
              ELSE <<ReplacementChar>> \o Utf8Decode(Tail(b))

\* the character of a base64 digit, and "="
B64Char(d) ==
    CASE d \in 0..25 -> 65 + d
      [] d \in 26..51 -> 97 + (d - 26)
      [] d \in 52..61 -> 48 + (d - 52)
      [] d = 62 -> 43
      [] OTHER -> 47
B64Pad == 61
B64Digit(c) == CHOOSE d \in 0..63 : B64Char(d) = c

\* btoa(binaryString) and Buffer.toString('base64')
RECURSIVE toBase64Bytes(_)
toBase64Bytes(b) ==
    CASE Len(b) = 0 -> <<>>
      [] Len(b) = 1 ->
            <<B64Char(b[1] \div 4), B64Char((b[1] % 4) * 16), B64Pad, B64Pad>>
      [] Len(b) = 2 ->
            <<B64Char(b[1] \div 4), B64Char((b[1] % 4) * 16 + b[2] \div 16),
              B64Char((b[2] % 16) * 4), B64Pad>>
      [] OTHER ->
            <<B64Char(b[1] \div 4), B64Char((b[1] % 4) * 16 + b[2] \div 16),
              B64Char((b[2] % 16) * 4 + b[3] \div 64), B64Char(b[3] % 64)>>
            \o toBase64Bytes(SubSeq(b, 4, Len(b)))

\* base64 decoding that takes every group for three bytes
RECURSIVE fromBase64_NoPadding(_)
fromBase64_NoPadding(s) ==
    IF Len(s) < 4 THEN <<>>
    ELSE LET d(i) == IF s[i] = B64Pad THEN 0 ELSE B64Digit(s[i]) IN
         <<d(1) * 4 + d(2) \div 16, (d(2) % 16) * 16 + d(3) \div 4, (d(3) % 4) * 64 + d(4)>>
         \o fromBase64_NoPadding(SubSeq(s, 5, Len(s)))

\* atob(base64Data) and Buffer.from(base64Data, 'base64'), of valid base64
RECURSIVE fromBase64(_)
fromBase64(s) ==
    IF Len(s) < 4 THEN <<>>
    ELSE LET d(i) == B64Digit(s[i])
             rest == fromBase64(SubSeq(s, 5, Len(s))) IN
         IF s[3] = B64Pad
         THEN <<d(1) * 4 + d(2) \div 16>> \o rest
         ELSE IF s[4] = B64Pad
              THEN <<d(1) * 4 + d(2) \div 16, (d(2) % 16) * 16 + d(3) \div 4>> \o rest
              ELSE <<d(1) * 4 + d(2) \div 16, (d(2) % 16) * 16 + d(3) \div 4,
                     (d(3) % 4) * 64 + d(4)>> \o rest

\* what send() may be given for binary data: a whole ArrayBuffer, or a view
\* (a Uint8Array or a DataView) of byteLength bytes from byteOffset
BinaryInputs ==
    {[kind |-> "ArrayBuffer", buffer |-> b, byteOffset |-> 0, byteLength |-> Len(b)] :
        b \in Buffers}
    \cup UNION {{[kind |-> k, buffer |-> b, byteOffset |-> o, byteLength |-> Len(b) - o] :
                    k \in {"Uint8Array", "DataView"}, o \in 0..Len(b)} :
                 b \in SeqsUpTo(ByteValues, MaxBytes - 1)}

\* handleBinaryData(data): the bytes that are encoded
handleBinaryData(data) ==
    IF data.kind = "ArrayBuffer"
    THEN data.buffer
    ELSE SubSeq(data.buffer, data.byteOffset + 1, data.byteOffset + data.byteLength)

\* the body of a POST as the proxy's req.on('data') handlers build it: the
\* UTF-8 bytes arrive in one chunk or in two (split after k bytes), and each
\* chunk is decoded by itself (body += chunk.toString())
ReceivedBody(body, k) ==
    LET bytes == Utf8Encode(body) IN
    Utf8Decode(SubSeq(bytes, 1, k)) \o Utf8Decode(SubSeq(bytes, k + 1, Len(bytes)))

\* event.data of the EventSource for a frame written as "data: <json>" and an
\* empty line: the stream is decoded as a whole, and the line ends at the
\* first line feed
RECURSIVE FirstLine(_)
FirstLine(s) ==
    IF s = <<>> \/ s[1] = 10 THEN <<>> ELSE <<s[1]>> \o FirstLine(Tail(s))
EventData(json) == FirstLine(Utf8Decode(Utf8Encode(json)))

\* send(text) to websocket.send of the proxy: encodeTextMessageRequest, the
\* POST, decodeMessageRequest
SendText(text, k) ==
    /\ k \in 0..Len(Utf8Encode(JsonEscape(text)))
    /\ wire' = [op |-> "send-text", text |-> text, data |-> <<>>, byteOffset |-> 0,
                split |-> k,
                out |-> JsonUnescape(ReceivedBody(JsonEscape(text), k))]

\* send(binary data) to websocket.send of the proxy: handleBinaryData,
\* encodeBinaryMessageRequestBrowser, the POST, decodeMessageRequest,
\* decodeBinaryData
SendBinary(data, k) ==
    LET base64Data == toBase64Bytes(handleBinaryData(data)) IN
    /\ k \in 0..Len(Utf8Encode(JsonEscape(base64Data)))
    /\ wire' = [op |-> "send-binary", text |-> <<>>, data |-> handleBinaryData(data),
                byteOffset |-> data.byteOffset, split |-> k,
                out |-> fromBase64(JsonUnescape(ReceivedBody(JsonEscape(base64Data), k)))]

\* a text message of the backend to the socket's message event:
\* data.toString(), encodeDataMessage, sendSSEMessage, decodeSSEMessage
BackendText(text) ==
    wire' = [op |-> "recv-text", text |-> text, data |-> <<>>, byteOffset |-> 0, split |-> 0,
             out |-> JsonUnescape(EventData(JsonEscape(Utf8Decode(Utf8Encode(text)))))]

\* a binary message of the backend to the socket's message event: base64 of
\* the Buffer, encodeBinaryDataMessage, sendSSEMessage, decodeSSEMessage,
\* decodeBinaryDataBrowser
BackendBinary(bytes) ==
    wire' = [op |-> "recv-binary", text |-> <<>>, data |-> bytes, byteOffset |-> 0, split |-> 0,
             out |-> fromBase64(JsonUnescape(EventData(JsonEscape(toBase64Bytes(bytes)))))]

PayloadNext ==
    \/ \E text \in Texts, k \in 0..(2 * MaxText) :
          SendText(text, k) /\ UNCHANGED <<vars, pvars, net>>
    \/ \E data \in BinaryInputs, k \in {0, 1} :
          SendBinary(data, k) /\ UNCHANGED <<vars, pvars, net>>
    \/ \E text \in Texts : BackendText(text) /\ UNCHANGED <<vars, pvars, net>>
    \/ \E bytes \in Buffers : BackendBinary(bytes) /\ UNCHANGED <<vars, pvars, net>>

PayloadInit == Init /\ ProxyIdle /\ NetInit

PayloadSpec == PayloadInit /\ [][PayloadNext]_<<vars, pvars, net, wire>>

\* ================================================================ claims
IsCloseCall == lastCall.op = "close"
ValidCode(c) == c = 1000 \/ c \in 3000..4999
CloseEvents == {events[i] : i \in EventsOf("close")}
\* close() was accepted on a socket that had been opened
ClosedFromOpen == userInitiatedClose /\ isWebSocketConnected

\* C1: readyState never regresses: with CONNECTING < OPEN < CLOSING < CLOSED
\* no step moves readyState to a lower state, and CLOSED is never left.
C1_ReadyStateNeverRegresses == [][readyState' >= readyState]_vars

\* C2: every change of readyState is one of the edges CONNECTING->OPEN,
\* CONNECTING->CLOSED, OPEN->CLOSING, CLOSING->CLOSED, and no other.
C2_ListedEdges ==
    {<<CONNECTING, OPEN>>, <<CONNECTING, CLOSED>>, <<OPEN, CLOSING>>, <<CLOSING, CLOSED>>}
C3_Close1001AlwaysThrows ==
    (IsCloseCall /\ lastCall.given /\ lastCall.code = 1001) => lastCall.result = "throw"

\* C3, amended: close(1001) throws when called in CONNECTING or OPEN; called
\* in CLOSING or CLOSED it returns without throwing and without any effect.
C3_Close1001Amended ==
    (IsCloseCall /\ lastCall.given /\ lastCall.code = 1001) =>
        /\ lastCall.state \in {CONNECTING, OPEN} => lastCall.result = "throw"
        /\ lastCall.state \in {CLOSING, CLOSED} =>
              (lastCall.result = "noop" /\ readyState = lastCall.state)
C3_Witness ==
    /\ IsCloseCall /\ lastCall.given /\ lastCall.code = 1001
    /\ lastCall.state = OPEN /\ lastCall.result = "throw"

\* C4: close(code) in CONNECTING or OPEN throws exactly when code is not 1000
\* and not in [3000,4999]; for a code in {1000} or [3000,4999] it never throws,
\* in any readyState.
C4_CloseCodeValidation ==
    (IsCloseCall /\ lastCall.given) =>
        /\ lastCall.state \in {CONNECTING, OPEN} =>
              (lastCall.result = "throw" <=> ~ValidCode(lastCall.code))
        /\ ValidCode(lastCall.code) => lastCall.result # "throw"
C4_Witness ==
    /\ IsCloseCall /\ lastCall.given /\ lastCall.code = 3000
    /\ lastCall.state = OPEN /\ lastCall.result = "ok"

\* C5: a close(code) call that fails the code check changes nothing:
\* readyState, userInitiatedClose, the stream, the events dispatched and the
\* POSTs issued are as before; an OPEN socket stays OPEN.
C5_FailedCloseChangesNothing ==
    [][(lastCall'.op = "close" /\ lastCall'.result = "throw") =>
          /\ UNCHANGED <<readyState, userInitiatedClose, eventSource, events, posts,
                         closeRequests, sendFetches, blobReads, sessionSecret,
                         isWebSocketConnected, pageUnloading>>
          /\ lastCall'.state = readyState']_vars
C5_Witness ==
    /\ IsCloseCall /\ lastCall.result = "throw"
    /\ lastCall.state = OPEN /\ readyState = OPEN /\ ~userInitiatedClose

\* C6: at most one close event is ever dispatched by one socket.
C6_AtMostOneCloseEvent == NumEvents("close") <= 1
\* one close event although the response and the timer of a close request
\* were both handled, after the socket had been opened
C6_Witness ==
    /\ NumEvents("close") = 1
    /\ ClosedFromOpen
    /\ \E i \in 1..Len(closeRequests) :
          closeRequests[i].fetch = "done" /\ closeRequests[i].timer = "fired"

\* C7: after close() on an OPEN socket, once the socket is CLOSED exactly one
\* close event has been delivered.
C7_CloseFromOpenGivesOneCloseEvent ==
    (ClosedFromOpen /\ readyState = CLOSED) => NumEvents("close") = 1

\* C8: a socket that is CLOSED without ever having been OPEN and without a
\* close() call has dispatched an error event and no close event.
C8_EstablishmentFailure ==
    (readyState = CLOSED /\ ~isWebSocketConnected /\ ~userInitiatedClose) =>
        (NumEvents("error") >= 1 /\ NumEvents("close") = 0)

\* C9: a socket that has been OPEN and is CLOSED has delivered a close event.
C9_OpenedSocketGetsCloseEvent ==
    (readyState = CLOSED /\ isWebSocketConnected) => NumEvents("close") >= 1

\* C10: after a network failure of the send POST or the close POST, or a
\* non-success status of the close POST, the socket is CLOSED and its close
\* event carries code 1006 and wasClean = false.  (Stated for the sockets
\* that dispatched no error event, so that a violation does not rest on the
\* error-only closes of C9.)
C10_FailureOps ==
    {"send-post-rejected", "close-post-rejected", "close-post-http-error",
     "close-body-rejected"}
C10_PostFailureGivesAbnormalClose ==
    (lastCall.op \in C10_FailureOps /\ NumEvents("error") = 0) =>
        /\ readyState = CLOSED
        /\ \E e \in CloseEvents : e.code = 1006 /\ ~e.wasClean

\* C10, amended: such a failure, handled while the socket is not yet CLOSED,
\* takes it to CLOSED and dispatches the close event (1006, wasClean = false);
\* handled on a socket that is already CLOSED it changes nothing.
C10_PostFailureAmended ==
    lastCall.op \in C10_FailureOps =>
        /\ readyState = CLOSED
        /\ lastCall.state # CLOSED =>
              /\ NumEvents("close") = 1
              /\ events[Len(events)].type = "close"
              /\ events[Len(events)].code = 1006
              /\ ~events[Len(events)].wasClean
C10_Witness ==
    /\ lastCall.op = "send-post-rejected"
    /\ lastCall.state = OPEN
    /\ readyState = CLOSED

\* ======================================================= claims on the proxy
\* the step calls close or terminate on the websocket of the Client c
CallMade(c) == Len(conns'[c].closeCalls) > Len(conns[c].closeCalls)
LastCallOf(c) == conns'[c].closeCalls[Len(conns'[c].closeCalls)]
\* the step is the loss of the stream of the Client c: its peer dropped it
StreamDropped(c) == conns[c].res = "open" /\ conns'[c].res = "closed"
\* the step handles the body of a close request made for the Client c
CloseRequested(c) ==
    \E r \in 1..Len(requests) :
        /\ requests[r].kind = "close" /\ requests[r].conn = c
        /\ requests[r].phase = "body" /\ requests'[r].phase = "waiting"
\* the codes a close request can ask for
RequestedCodes == {RequestedCode(body) : body \in {b \in CloseBodies : b.json}}

\* C14: a backend connection is closed with code 1001 exactly when the stream
\* of its own session is dropped while the connection is OPEN (no close
\* request was issued for it: the connection would be CLOSING); a close
\* request passes the code it asked for; every other teardown closes without
\* a code.
C14_CloseCodeTranslation ==
    [][\A c \in 1..Len(conns) :
          /\ (StreamDropped(c) /\ conns[c].ws = "OPEN") =>
                (CallMade(c) /\ LastCallOf(c).code = GoingAway)
          /\ CallMade(c) =>
                /\ LastCallOf(c).code = GoingAway => StreamDropped(c)
                /\ (CloseRequested(c) /\ LastCallOf(c).op = "close") =>
                      LastCallOf(c).code \in RequestedCodes
                /\ (~StreamDropped(c) /\ ~CloseRequested(c)) => LastCallOf(c).code = 0]_pvars

\* the sessions in the registry
ActiveSessions == {sid \in Sids : clients[sid] # 0}
\* the response of this step answers a stream-open request that named a backend
StreamAnswered == lastResp'.req = "sse" /\ lastResp'.status # 400

\* C15: a stream-open request whose target the guard denies is answered 403
\* and changes neither the registry nor the Client objects (no websocket is
\* created); a Client is created only by a request whose target the guard
\* allows; the health endpoint counts the registry's entries.
C15_DeniedStreamHasNoEffect ==
    [][/\ StreamAnswered =>
             (lastResp'.status = 403 <=> ~isBackendAllowed(lastResp'.target))
       /\ (lastResp'.req = "sse" /\ lastResp'.status = 403) =>
             (clients' = clients /\ conns' = conns)
       /\ Len(conns') > Len(conns) =>
             /\ lastResp'.req = "sse" /\ lastResp'.status = 200
             /\ isBackendAllowed(lastResp'.target)
       /\ lastResp'.req = "health" =>
             lastResp'.count = Cardinality(ActiveSessions)]_pvars
C15_Witness ==
    /\ lastResp.req = "sse" /\ lastResp.status = 403
    /\ lastResp.target.ok
    /\ conns = <<>> /\ ActiveSessions = {}

\* the scheme class of a URL scheme: ws with http, wss with https
SchemeClass(scheme) == IF scheme \in {"ws", "http"} THEN "http" ELSE "https"
\* the port a URL names, the scheme's default when it names none
PortOf(raw) == IF raw.port = "" THEN DefaultPort(raw.scheme) ELSE raw.port
\* an allow-list entry with the scheme class, the host and the port of the target
SameOrigin(entry, target) ==
    /\ entry.ok
    /\ SchemeClass(entry.scheme) = SchemeClass(target.scheme)
    /\ entry.host = target.host
    /\ PortOf(entry) = PortOf(target)
AllowListOnly == ~config.allowAnyLocalhostPort /\ ~config.dangerouslyAllowAnyHost

\* C16: with an allow-list alone, a stream-open request is admitted exactly
\* when an entry has the scheme class, the host and the port of its target.
C16_AllowListMatchesHostAndPort ==
    (AllowListOnly /\ lastResp.req = "sse" /\ lastResp.status \in {200, 403}
       /\ lastResp.target.ok) =>
        (lastResp.status = 200 <=>
            \E entry \in config.allowedHosts : SameOrigin(entry, lastResp.target))

\* the step answers the send request r
SendAnswered(r) ==
    /\ requests[r].kind = "send"
    /\ requests[r].phase = "body" /\ requests'[r].phase = "done"
\* the step takes a new send request
SendTaken ==
    /\ Len(requests') > Len(requests)
    /\ requests'[Len(requests')].kind = "send"

\* C17: a send request for an unknown session is answered 404, one for a
\* session whose websocket is not OPEN 503; every other one is taken and is
\* answered at the end of its body, 400 when the body is no valid frame, else
\* 200 with the frame passed to the websocket and lastActivity refreshed;
\* no request is answered twice.
C17_SendStatus ==
    [][/\ (lastResp'.req = "send" /\ lastResp'.status = 404) =>
             (clients[lastResp'.sid] = 0 /\ requests' = requests /\ lastSend' = NoSend)
       /\ (lastResp'.req = "send" /\ lastResp'.status = 503) =>
             /\ clients[lastResp'.sid] # 0
             /\ conns[clients[lastResp'.sid]].ws # "OPEN"
             /\ requests' = requests /\ lastSend' = NoSend
       /\ SendTaken =>
             LET r == requests'[Len(requests')] IN
             /\ clients[r.sid] = r.conn /\ r.conn # 0
             /\ conns[r.conn].ws = "OPEN"
             /\ lastResp' = NoResp
       /\ \A r \in 1..Len(requests) :
             /\ SendAnswered(r) =>
                   /\ lastResp'.req = "send" /\ lastResp'.status \in {200, 400}
                   /\ requests'[r].responses = 1
                   /\ lastResp'.status = 200 =>
                         /\ lastSend'.conn = requests[r].conn
                         /\ lastSend'.data \in {"ping", "0x01 0x02"}
                         /\ ~conns'[requests[r].conn].stale
                   /\ lastResp'.status = 400 => (lastSend' = NoSend /\ conns' = conns)
             /\ (requests[r].kind = "send" /\ requests[r].phase = "done") =>
                   requests'[r] = requests[r]
       /\ (lastResp'.req = "send" /\ lastResp'.sid # "") =>
             \/ lastResp'.status \in {404, 503}
             \/ \E r \in 1..Len(requests) : SendAnswered(r)]_pvars
C17_Witness ==
    /\ lastResp.req = "send" /\ lastResp.status = 200
    /\ lastSend.conn # 0 /\ lastSend.data = "0x01 0x02" /\ lastSend.binary

\* the step answers the close request r
CloseAnswered(r) ==
    /\ requests[r].kind = "close"
    /\ ~requests[r].responseSent /\ requests'[r].responseSent

\* C18: a close request handled while the websocket of its session has not
\* opened is answered with the code and the reason it asked for and
\* wasClean = TRUE, and close is not called on the websocket.
C18_NotOpenClosedLocally ==
    [][\A r \in 1..Len(requests) :
          LET c == requests[r].conn IN
          /\ (CloseAnswered(r) /\ conns[c].ws # "CLOSED" /\ ~conns[c].wsOpened) =>
                /\ lastResp'.code = requests[r].code
                /\ lastResp'.reason = requests[r].reason
                /\ lastResp'.wasClean
          /\ (CloseRequested(c) /\ conns[c].ws = "CONNECTING") =>
                (CallMade(c) => LastCallOf(c).op # "close")]_pvars

\* C19: when the timeout of a close request fires before the websocket's
\* close event, the request is answered with code 1006 and wasClean = FALSE;
\* a request that was answered is not answered again, whatever comes later.
C19_TimeoutAnswersOnce ==
    [][\A r \in 1..Len(requests) :
          /\ (requests[r].timer = "armed" /\ requests'[r].timer = "fired"
                /\ ~requests[r].responseSent) =>
                /\ lastResp'.req = "close" /\ lastResp'.status = 200
                /\ lastResp'.code = AbnormalClosure /\ ~lastResp'.wasClean
                /\ requests'[r].responses = 1
          /\ requests[r].responseSent =>
                /\ requests'[r].responses = requests[r].responses
                /\ requests'[r].responseSent
          /\ requests'[r].responses <= 1]_pvars
\* the timeout answered, and the close event came afterwards
C19_Witness ==
    \E r \in 1..Len(requests) :
        /\ requests[r].timer = "fired" /\ requests[r].responses = 1
        /\ ~requests[r].listening
        /\ lastFrame.frame.type = "websocket-closed"

\* C20: the health endpoint answers 200 and includes the session count and
\* the sessions' diagnostics exactly when a secret is configured and the
\* caller supplies that secret.
C20_HealthDetailsGated ==
    lastResp.req = "health" =>
        /\ lastResp.status = 200
        /\ lastResp.detailed <=> (lastResp.secret # "" /\ lastResp.supplied = lastResp.secret)

\* ==================================================== claims on the system
\* the close codes of a clean close
InCleanRange(code) == code \in 1000..1003
\* close() was accepted before the socket was connected: it closed locally
LocalClose == userInitiatedClose /\ ~isWebSocketConnected

\* C11: every close event of the socket, every websocket-closed frame and
\* every close response of the proxy has wasClean = (code in 1000..1003).
C11_WasCleanFromCode ==
    /\ \A e \in CloseEvents : e.wasClean <=> InCleanRange(e.code)
    /\ lastFrame.frame.type = "websocket-closed" =>
          (lastFrame.frame.wasClean <=> InCleanRange(lastFrame.frame.code))
    /\ (lastResp.req = "close" /\ lastResp.status = 200) =>
          (lastResp.wasClean <=> InCleanRange(lastResp.code))

\* C11, amended: the close event of a local close has wasClean = TRUE with
\* the code asked for, 1000 or one of 3000..4999; every other close event,
\* every websocket-closed frame and every close response has
\* wasClean = (code in 1000..1003).
C11_WasCleanAmended ==
    /\ \A e \in CloseEvents :
          IF LocalClose
          THEN e.wasClean /\ ValidCode(e.code)
          ELSE e.wasClean <=> InCleanRange(e.code)
    /\ lastFrame.frame.type = "websocket-closed" =>
          (lastFrame.frame.wasClean <=> InCleanRange(lastFrame.frame.code))
    /\ (lastResp.req = "close" /\ lastResp.status = 200) =>
          (lastResp.wasClean <=> InCleanRange(lastResp.code))
\* the close event taken from the response of the close POST, code 3000
C11_Witness ==
    /\ net.post.state = "done" /\ net.post.closeInfo.code = 3000
    /\ ~net.post.closeInfo.wasClean
    /\ \E e \in CloseEvents : e.code = 3000 /\ ~e.wasClean

\* the backend closed the open session of the socket on its own
BackendClosedFirst ==
    /\ net.backendClose.seen /\ net.backendClose.opened
    /\ net.backendClose.calls = <<>>

\* C12: when the backend closes the socket's open session and close() was not
\* called, the socket dispatches one close event, with the code and the
\* reason of the backend's close and wasClean = (code in 1000..1003).
C12_BackendCloseVerbatim ==
    (BackendClosedFirst /\ ~userInitiatedClose /\ NumEvents("error") = 0) =>
        /\ NumEvents("close") <= 1
        /\ \A e \in CloseEvents :
              /\ e.code = net.backendClose.code
              /\ e.reason = net.backendClose.reason
              /\ e.wasClean <=> InCleanRange(net.backendClose.code)
        /\ net.frames = <<>> => NumEvents("close") = 1
C12_Witness ==
    /\ BackendClosedFirst /\ ~userInitiatedClose
    /\ net.backendClose.code = 4002 /\ net.backendClose.reason = "bye"
    /\ readyState = CLOSED
    /\ \E e \in CloseEvents : e.code = 4002 /\ e.reason = "bye" /\ ~e.wasClean

\* no timeout of the close handshake fired, and no error was reported
NoTimeout ==
    /\ \A i \in 1..Len(closeRequests) : closeRequests[i].timer # "fired"
    /\ \A r \in 1..Len(requests) : requests[r].timer # "fired"
\* the backend closed after the close the socket's close() asked for
HandshakeDone ==
    /\ userInitiatedClose /\ isWebSocketConnected
    /\ net.backendClose.seen
    /\ net.backendClose.calls = <<CloseCall("close", net.post.code, net.post.reason)>>

C21_SendNotOpenThrows ==
    [][(lastCall'.op = "send" /\ lastCall'.state # OPEN) =>
          /\ lastCall'.result = "throw"
          /\ posts' = posts
          /\ sendFetches' = sendFetches /\ blobReads' = blobReads
          /\ events' = events
          /\ readyState' = readyState
          /\ eventSource' = eventSource]_vars
\* send() has thrown on a CLOSING socket
C21_Witness == lastCall.op = "send" /\ lastCall.result = "throw" /\ lastCall.state = CLOSING


\* close() was accepted as the last step, on a socket that had not been opened
LocalCloseCall ==
    /\ lastCall.op = "close" /\ lastCall.result = "ok"
    /\ ~isWebSocketConnected

\* C22: close(code?, reason?) with a valid code, called before any
\* websocket-connected frame was handled, leaves readyState CLOSED and
\* dispatches one close event, the socket's only one, with the code asked for
\* (1000 when none), the reason asked for and wasClean = TRUE; the socket has
\* dispatched no error event and issued no POST;
\* and from then on no step dispatches an event or issues a POST.
C22_LocalClose ==
    [][/\ LocalCloseCall' =>
             /\ readyState' = CLOSED
             /\ events' = Append(events,
                                 CloseEvent(IF lastCall'.given THEN lastCall'.code ELSE 1000,
                                            lastCall'.reason, TRUE))
             /\ NumEvents("close")' = 1 /\ NumEvents("error")' = 0
             /\ posts' = [send |-> 0, close |-> 0]
             /\ sendFetches' = 0 /\ blobReads' = 0 /\ closeRequests' = <<>>
       /\ (userInitiatedClose /\ ~isWebSocketConnected) =>
             /\ events' = events
             /\ posts' = posts
             /\ readyState' = CLOSED]_vars
\* a frame was refused after the local close: close(3000, "bye"), and later a
\* send() that threw on the CLOSED socket
C22_Witness ==
    /\ userInitiatedClose /\ ~isWebSocketConnected
    /\ events # <<>> /\ events[Len(events)] = CloseEvent(3000, "bye", TRUE)
    /\ lastCall.op = "send" /\ lastCall.result = "throw"


\* the frame types of the proxy-to-client family (SSEMessage)
FamilyTypes ==
    {"connected", "session-secret", "websocket-connected", "message", "binary-message",
     "websocket-error", "websocket-closed", "ping"}
\* event.data that is no member of the family
Malformed(raw) == raw.kind # "object" \/ raw.msg.type \notin FamilyTypes

\* C23: handling event.data that is no well-formed frame of the family
\* dispatches an error event.
C23_MalformedFrameGivesError ==
    [][\A raw \in RawData :
          (Malformed(raw) /\ onmessage(raw)) =>
              /\ Len(events') = Len(events) + 1
              /\ events'[Len(events')].type = "error"]_vars


\* C24: a text payload arrives unchanged, from send(text) at the backend's
\* websocket and from a text message of the backend in the message event.
C24_TextRoundTrip ==
    wire.op \in {"send-text", "recv-text"} => wire.out = wire.text

\* C25: a byte sequence arrives unchanged, from send() of a buffer or of a
\* view at the backend's websocket (the bytes of the view, whatever its
\* offset) and from a binary message of the backend in the message event.
C25_BinaryRoundTrip ==
    wire.op \in {"send-binary", "recv-binary"} => wire.out = wire.data
\* two bytes (one "=" of padding) sent from a view that starts at offset 1
C25_Witness ==
    /\ wire.op = "send-binary"
    /\ wire.data = <<255, 65>>
    /\ wire.out = <<255, 65>>
    /\ wire.byteOffset = 1


Live(c) == conns[c].res = "open" \/ conns[c].ws \in {"CONNECTING", "OPEN"}

\* C27: a Client is the registry's entry of its session id exactly when its
\* SSE stream is open or its websocket is CONNECTING or OPEN.
C27_RegistryLiveness ==
    \A c \in 1..Len(conns) :
        conns[c].sessionId \in Sids =>
            (clients[conns[c].sessionId] = c <=> Live(c))

\* C28: once the socket was closed by close() before it was opened and the
\* proxy has seen its stream go, the registry has no entry for the session and
\* its websocket is neither CONNECTING nor OPEN.
C28_AbandonedWhileConnecting ==
    (LocalClose /\ Stream > 0 /\ conns[Stream].sessionId \in Sids
        /\ conns[Stream].res = "closed") =>
        /\ clients[conns[Stream].sessionId] = 0
        /\ conns[Stream].ws \notin {"CONNECTING", "OPEN"}


\* the calls of close that cleanupClient made on the websocket of a Client:
\* with 1001 or without a code
CleanupCalls(client) ==
    {i \in 1..Len(client.closeCalls) :
        /\ client.closeCalls[i].op = "close"
        /\ client.closeCalls[i].code \in {0, GoingAway}}
\* the step is a teardown trigger of the Client d: its stream went, its
\* websocket closed, or the reaper found it inactive
TriggerOf(d) ==
    \/ StreamDropped(d)
    \/ conns[d].ws # "CLOSED" /\ conns'[d].ws = "CLOSED"
    \/ conns[d].stale /\ lastResp' = NoResp /\ requests' = requests

\* C29: a Client is torn down (its registry entry removed, its stream ended,
\* its websocket asked to close) only by a step that is a trigger of its own,
\* and cleanup asks its websocket to close at most once.
C29_CleanupOnlyFirstTrigger ==
    [][\A d \in 1..Len(conns) :
          /\ (conns[d].sessionId \in Sids /\ clients[conns[d].sessionId] = d
                /\ clients'[conns[d].sessionId] = 0) => TriggerOf(d)
          /\ (conns[d].res = "open" /\ conns'[d].res # "open") => TriggerOf(d)
          /\ Cardinality(CleanupCalls(conns'[d])) <= 1]_pvars


\* C30: a close request that found its session is answered exactly once:
\* never twice, and once its handler has run either the response is written
\* or the handler's timeout that writes it is still armed, whatever the order
\* of the backend's close, the timeout and a second close request.
C30_ExactlyOneResponse ==
    \A r \in 1..Len(requests) :
        requests[r].kind = "close" =>
            /\ requests[r].responses <= 1
            /\ requests[r].phase = "done" <=> requests[r].responses = 1
            /\ requests[r].phase # "body" =>
                  (requests[r].responses = 1 \/ requests[r].timer = "armed")


\* C31: when the backend's websocket of a session in the registry emits close,
\* the proxy writes one websocket-closed frame with the event's code and
\* reason (and wasClean computed from the code) on that session's stream if
\* the stream is still open, and writes none otherwise; either way the stream
\* is then ended and the session is out of the registry.
C31_BackendCloseTearsDown ==
    [][\A c \in 1..Len(conns) :
          (Registered(c) /\ conns[c].ws # "CLOSED" /\ conns'[c].ws = "CLOSED") =>
              /\ IF conns[c].res = "open"
                 THEN /\ lastFrame'.conn = c
                      /\ lastFrame'.frame.type = "websocket-closed"
                      /\ [code |-> lastFrame'.frame.code, reason |-> lastFrame'.frame.reason]
                            \in CloseEventsOf(conns[c])
                      /\ lastFrame'.frame.wasClean = WasClean(lastFrame'.frame.code)
                      /\ lastResp'.req = "close" =>
                            /\ lastResp'.code = lastFrame'.frame.code
                            /\ lastResp'.reason = lastFrame'.frame.reason
                 ELSE lastFrame' = NoWrite
              /\ conns'[c].res # "open"
              /\ clients'[conns[c].sessionId] = 0]_pvars

\* the backend of a session with an open stream has closed with 4002 "bye":
\* the frame is written, the stream ended and the registry empty
C31_Witness ==
    /\ lastFrame.conn = 1
    /\ lastFrame.frame = Frame("websocket-closed", "", 4002, "bye", FALSE)
    /\ conns[1].ws = "CLOSED"
    /\ conns[1].res = "ended"
    /\ \A sid \in Sids : clients[sid] = 0


\* a step of the reaper's sweep that finds a session with an OPEN websocket to
\* evict: the only caller, but for the close handler of a websocket, that
\* closes a websocket without a code
SweepStep ==
    /\ \E d \in 1..Len(conns) :
          conns'[d].closeCalls = Append(conns[d].closeCalls, CloseCall("close", 0, ""))
    /\ \A c \in 1..Len(conns) : conns'[c].ws = "CLOSED" => conns[c].ws = "CLOSED"

\* C32: a sweep of the reaper evicts and tears down every session whose last
\* forwarded frame is older than the idle threshold and leaves the others in
\* the registry with their streams; and a keepalive ping is no activity: the
\* step that writes it leaves the session as idle as it was.
C32_ReaperEvictsIdleSessions ==
    [][/\ SweepStep =>
             \A c \in 1..Len(conns) :
                 Registered(c) =>
                     IF conns[c].stale
                     THEN clients'[conns[c].sessionId] = 0 /\ conns'[c].res # "open"
                     ELSE clients'[conns[c].sessionId] = c /\ conns'[c].res = conns[c].res
       /\ lastFrame'.frame.type = "ping" =>
             conns'[lastFrame'.conn].stale = conns[lastFrame'.conn].stale]_pvars


\* the session of the Client c was torn down: its stream is ended and it is
\* out of the registry
TornDown(c) == conns[c].res # "open" /\ ~Registered(c)

\* C33: once a session is torn down its keepalive timer is cancelled: no ping
\* frame is written for it any more, and its keepalive callback does not run
\* again (a run would write a ping, refresh lastActivity or clear the
\* interval).
C33_TeardownCancelsKeepalive ==
    [][\A c \in 1..Len(conns) :
          TornDown(c) =>
              /\ ~(lastFrame'.conn = c /\ lastFrame'.frame.type = "ping")
              /\ conns[c].keepaliveInterval = "cleared"
              /\ conns'[c].keepaliveInterval = "cleared"]_pvars


\* C34: a send request answered 400, 404 or 503 changes nothing of the
\* sessions: nothing is passed to a websocket in that step, no Client and no
\* registry entry changes (lastActivity included); and nothing is forwarded
\* later on its behalf: data reaches a websocket only in the step that answers
\* a send request with 200, never in the step in which a websocket opens.
C34_FailedSendHasNoEffect ==
    [][/\ (lastResp'.req = "send" /\ lastResp'.status \in {400, 404, 503}) =>
             /\ lastSend' = NoSend
             /\ conns' = conns
             /\ clients' = clients
       /\ lastSend' # NoSend => (lastResp'.req = "send" /\ lastResp'.status = 200)
       /\ \A c \in 1..Len(conns) :
             (conns[c].ws = "CONNECTING" /\ conns'[c].ws = "OPEN") => lastSend' = NoSend]_pvars

\* a send request whose body was no valid frame was answered 400 for a session
\* that had been idle for longer than the threshold, and it still is; the
\* websocket is OPEN
C34_Witness ==
    /\ lastResp.req = "send" /\ lastResp.status = 400
    /\ lastResp.sid \in Sids
    /\ clients[lastResp.sid] # 0
    /\ conns[clients[lastResp.sid]].stale
    /\ conns[clients[lastResp.sid]].ws = "OPEN"
    /\ lastSend = NoSend


\* the websocket of the Client c emits error in this step: the frame of the
\* error handler is written, or the websocket starts closing with no call of
\* close or terminate
ErrorStep(c) ==
    \/ lastFrame'.conn = c /\ lastFrame'.frame.type = "websocket-error"
    \/ /\ conns[c].ws \in {"CONNECTING", "OPEN"}
       /\ conns'[c].ws = "CLOSING"
       /\ conns'[c].closeCalls = conns[c].closeCalls

\* C35: on an error event of a backend websocket the proxy writes one
\* websocket-error frame on the stream of that Client (none when the stream is
\* no longer open) and does nothing else: the stream stays as it was, the
\* registry is unchanged, no close or terminate is called on the websocket, and
\* no other Client and no request changes.
C35_BackendErrorOnlyWritesFrame ==
    [][\A c \in 1..Len(conns) :
          ErrorStep(c) =>
              /\ lastFrame' = IF conns[c].res = "open"
                              THEN [conn |-> c,
                                    frame |-> Frame("websocket-error", "backend error",
                                                    0, "", FALSE)]
                              ELSE NoWrite
              /\ clients' = clients
              /\ conns' = [conns EXCEPT ![c].ws = "CLOSING"]
              /\ requests' = requests
              /\ lastResp' = NoResp]_pvars

\* the OPEN backend of a session has emitted error: the frame is written, the
\* stream is open, the session registered and nothing was called on the
\* websocket
C35_Witness ==
    /\ lastFrame.conn = 1
    /\ lastFrame.frame.type = "websocket-error"
    /\ Registered(1)
    /\ conns[1].res = "open"
    /\ conns[1].wsOpened
    /\ conns[1].ws = "CLOSING"
    /\ conns[1].closeCalls = <<>>


\* C36: a send request is answered 200 only when its frame was passed to a
\* websocket that was OPEN at that moment: none is acknowledged and lost
\* because the backend closed, or the session was torn down, while the body
\* was being read.
C36_AcknowledgedSendWasForwarded ==
    (lastResp.req = "send" /\ lastResp.status = 200) =>
        /\ lastSend # NoSend
        /\ lastSend.ws = "OPEN"


\* C37: the messages of successive send() calls on one open socket reach the
\* backend in the order of the calls, each at most once (and no call's message
\* is passed to the websocket before that of an earlier call).
C37_SendsForwardedInCallOrder ==
    \A i, j \in 1..Len(wire.forwarded) :
        i < j => wire.forwarded[i] < wire.forwarded[j]


\* C38: a stream opened with a session id that is already registered leaves
\* the existing session alone: every Client with an open stream is the
\* registry's entry for its id, so that no two open streams share an id and
\* every websocket of such a Client is referenced by one entry; and the close
\* or abort of one Client's stream changes no other Client and removes no
\* other Client's entry.
C38_DuplicateIdLeavesSessionAlone ==
    [][/\ \A c \in 1..Len(conns') :
             conns'[c].res = "open" => clients'[conns'[c].sessionId] = c
       /\ \A c, d \in 1..Len(conns) :
             (c # d /\ conns[d].res = "open" /\ conns'[d].res = "closed") =>
                 /\ conns'[c] = conns[c]
                 /\ clients[conns[c].sessionId] = c => clients'[conns[c].sessionId] = c]_pvars


\* C39: once the socket's readyState is CLOSED no open and no message event is
\* dispatched and no send or close POST is issued for it; an open event is
\* dispatched at most once, and before every message event.
C39_NothingAfterClosed ==
    [][/\ readyState = CLOSED =>
             /\ NumEvents("open")' = NumEvents("open")
             /\ NumEvents("message")' = NumEvents("message")
             /\ posts' = posts
       /\ NumEvents("open")' <= 1
       /\ \A i \in 1..Len(events') :
             events'[i].type = "message" =>
                 \E j \in 1..(i - 1) : events'[j].type = "open"]_vars


\* C40: after stop() the registry is empty, the interval of the reaper is
\* cleared, and every backend websocket the proxy had opened is closed or was
\* asked to close.
C40_StopReleasesEverything ==
    wire.server = "closed" =>
        /\ \A sid \in Sids : clients[sid] = 0
        /\ wire.cleanupInterval = "cleared"
        /\ \A c \in 1..Len(conns) : conns[c].ws \in {"CLOSING", "CLOSED"}

====
